---- MODULE Spec2Model ----
(***************************************************************************)
(* CareXpert frontend: the session and real-time-connection lifecycle.     *)
(*                                                                         *)
(*   - Auth Store (zustand + persist): src/src/store/authstore.ts and the  *)
(*     other versions of the same store kept in the repository             *)
(*     (src/unnamed/part_003, part_001, part_008).  The version in force   *)
(*     is fixed when the application is built: storeVariant.               *)
(*   - HTTP client 401 recovery guard: src/src/pages/NotFound.tsx:67-92    *)
(*     (the same text as src/src/lib/api.ts:41-63), and the clients        *)
(*     without the guard: src/unnamed/part_006, src/src/services/api.ts.   *)
(*   - Socket singleton: src/src/sockets/socket.ts.                        *)
(*   - useChatSocket hook: src/unnamed/part_001:265-315.                   *)
(*   - CacheManager: src/unnamed/part_002.                                 *)
(*   - Chat-history loaders: src/src/sockets/socket.ts:74-146 over         *)
(*     chatAPI, src/unnamed/part_006:625-693.                              *)
(*   - onMessage / offMessage: src/src/sockets/socket.ts:50-63.            *)
(*   - cachedRequest and invalidateCache: src/src/lib/api-helper.ts.       *)
(*                                                                         *)
(* Specifications: SpecStore (one tab, every store operation), SpecTabs    *)
(* and SpecTabsFair (two tabs, cross-tab logout), SpecHttp and             *)
(* SpecHttpFair (the 401 guard with the clock), SpecApi (the three HTTP    *)
(* clients), SpecHook (useChatSocket and the socket), SpecCache            *)
(* (CacheManager), SpecFetch (getOrFetch), SpecFetchFaults (getOrFetch     *)
(* over a storage that fails on reads), SpecChat (the chat-history         *)
(* loaders), SpecRequest (cachedRequest), SpecInvalidate                   *)
(* (invalidateCache), SpecListeners (the 'message' listeners of the        *)
(* socket), SpecNullPayload (set, getOrFetch and cachedRequest on one      *)
(* key).                                                                   *)
(*                                                                         *)
(* Optional values (T | null) are sequences of length 0 or 1.              *)
(***************************************************************************)
EXTENDS Integers, Sequences, FiniteSets, TLC

VARIABLES
    \* ---- build / environment, fixed after Init
    storeVariant,       \* which version of the auth store is built
    bcSupported,        \* whether `new BroadcastChannel(..)` succeeds
    \* ---- wall clock (Date.now())
    now,
    \* ---- one auth store and one socket per tab
    user,               \* AuthState.user            (User | null)
    isLoading,          \* AuthState.isLoading
    sessionExpiredAt,   \* AuthState.sessionExpiredAt (number | null)
    loginInFlight,      \* login() calls awaiting the authentication endpoint:
                        \* the email of each, in call order
    socketConnected,    \* socket.connected
    navPending,         \* window.location.href = '/auth/login' was assigned
    syncInit,           \* initCrossTabSync() listeners are registered
    bcInbox,            \* {type:'logout'} messages queued for channel.onmessage
    stInbox,            \* storage events queued for handleStorageEvent
    \* ---- localStorage, shared by the tabs of the origin
    authStorage,        \* the record under "auth-storage"
    logoutEvent,        \* the text under "carexpert-logout-event"
    \* ---- the api module of each tab (NotFound.tsx:62-92)
    isHandlingUnauthorized,  \* the module-level flag
    resetTimers,        \* pending setTimeout callbacks: the time left of each
    burst,              \* what happened since the running cool-down began
    \* ---- useChatSocket (part_001:265-307) in the components of tab "A"
    mounted,            \* the hook's effect has run and was not cleaned up
    handlersRef,        \* handlersRef.current of each hook instance
    socketListeners,    \* the socket's listeners of 'message', in order
    dispatch,           \* the 'message' event being delivered
    invoked,            \* the handlers called for that event, in order
    threw,              \* the positions in `invoked` of the calls that threw
    startRegs,          \* handlersRef when that event arrived
    transportError,     \* an exception left a 'message' listener
    \* ---- CacheManager (part_002) over the two Web Storage areas
    cacheStore,         \* backend -> key -> the stored text, or absent
    cacheRet,           \* what the last CacheManager call returned
    fetches,            \* getOrFetch calls awaiting their fetchFn, in call order
    loginRejection,     \* per tab: the message of the Error the last settled
                        \* login() rejected with, Null when it resolved
    authToken,          \* localStorage["authToken"]
    lastRequest,        \* the config of the last request an HTTP client sent
    lastError,          \* what a response interceptor did with the last error
                        \* response: its status, the toast and what the
                        \* caller's promise got
    \* ---- the chat-history loaders (sockets/socket.ts:74-146)
    chatLoads,          \* the calls, in call order: the requests each sent
                        \* to the backend and how it settled
    \* ---- cachedRequest (lib/api-helper.ts:20-56)
    requests,           \* the calls awaiting axios(axiosConfig), in call order
    requestRet          \* what the last cachedRequest call returned

storeVars == <<storeVariant, bcSupported, logoutEvent, user, isLoading, sessionExpiredAt,
               loginInFlight, socketConnected, navPending, syncInit, bcInbox,
               stInbox, authStorage>>

httpVars == <<isHandlingUnauthorized, resetTimers, burst>>

hookVars == <<mounted, handlersRef, socketListeners, dispatch, invoked, threw,
              startRegs, transportError>>

cacheVars == <<cacheStore, cacheRet, fetches>>

apiVars == <<authToken, lastRequest, lastError>>

chatVars == <<chatLoads>>

helperVars == <<requests, requestRet>>

vars == <<storeVars, now, httpVars, hookVars, cacheVars, loginRejection, apiVars,
          chatVars, helperVars>>

-----------------------------------------------------------------------------
(* Bounds of the model. *)
MaxTime == 2
MaxInFlight == 2
MaxPending == 4
Max401 == 3
MaxBursts == 2
MaxRegs == 3
MaxTtl == 2
MaxEntries == 2
MaxFetches == 2
MaxLoads == 3
MaxRequests == 1
MaxListeners == 3

-----------------------------------------------------------------------------
(* Values *)
Null == <<>>
Some(x) == <<x>>
Undefined == "undefined"

Tabs == {"A", "B"}

StoreVariants == {"authstore.ts", "part_003", "part_001", "part_008"}
\* the versions that declare sessionExpiredAt, handleSessionExpiry and
\* initCrossTabSync
ExpiryVariants == {"authstore.ts", "part_003"}

\* User.role: 'PATIENT' | 'DOCTOR' | 'ADMIN'
Roles == {"PATIENT", "DOCTOR", "ADMIN"}

\* LoginResponse: what the authentication endpoint returns in data.  Its
\* role is a string: one response has a role of the User type, the other a
\* role outside it.
LoginResponses ==
    { [id |-> "u1", name |-> "A", email |-> "a@x.com", profilePicture |-> "a.png",
       role |-> "PATIENT", refreshToken |-> "rt-u1"],
      [id |-> "u2", name |-> "B", email |-> "b@x.com", profilePicture |-> Undefined,
       role |-> "NURSE", refreshToken |-> Undefined] }

\* the emails login() is called with: those of the accounts
LoginEmails == {r.email : r \in LoginResponses}

\* what callers pass to setUser (src/src/pages/auth/Login.tsx:52-59 passes the
\* login response's fields, refreshToken included)
SetUserInputs == LoginResponses

AUTH_STORAGE_KEY == "auth-storage"
LOGOUT_EVENT_KEY == "carexpert-logout-event"

-----------------------------------------------------------------------------
(* persist: partialize, and the write that follows every set() *)

partialize(variant, u) ==
    IF variant = "part_008"
    THEN (IF u = Null THEN [user |-> Null]
          ELSE [user |-> Some([id |-> u[1].id, name |-> u[1].name,
                               email |-> u[1].email,
                               profilePicture |-> u[1].profilePicture,
                               role |-> u[1].role,
                               refreshToken |-> Undefined])])
    ELSE [user |-> u]

\* the persist middleware's setItem after a set(): JSON of partialize(state)
persistWrite(u) == Some(partialize(storeVariant, u))

\* the other tabs whose storage listener is registered
listeners(t) == {r \in Tabs \ {t} : syncInit[r]}

pendingCount ==
    LET RECURSIVE Sum(_)
        Sum(S) == IF S = {} THEN 0
                  ELSE LET x == CHOOSE y \in S : TRUE
                       IN bcInbox[x] + Len(stInbox[x]) + Sum(S \ {x})
    IN Sum(Tabs)

\* storage events `keys` (in order) reach every listening tab but the writer
emitStorage(t, keys) ==
    [r \in Tabs |-> IF r \in listeners(t) THEN stInbox[r] \o keys ELSE stInbox[r]]

-----------------------------------------------------------------------------
(* Auth store operations: each states the whole effect on storeVars *)

\* a connectSocket without its guard, on a socket whose connect() is not
\* idempotent: connecting a connected socket drops the connection
connectSocket_unguarded(t) == [socketConnected EXCEPT ![t] = ~@]

\* socket.ts: connectSocket / disconnectSocket.  socket is one object per
\* document (socket.ts:7-10), so a tab has one connection or none.
connectSocket(t) == [socketConnected EXCEPT ![t] = TRUE]
disconnectSocket(t) == [socketConnected EXCEPT ![t] = FALSE]

\* setUser: set({ user, sessionExpiredAt: null }); part_001 and part_008:
\* set({ user }) in a store that has no sessionExpiredAt
setUser(t, u) ==
    /\ user' = [user EXCEPT ![t] = Some(u)]
    /\ sessionExpiredAt' = [sessionExpiredAt EXCEPT ![t] = Null]
    /\ authStorage' = persistWrite(Some(u))
    /\ UNCHANGED <<storeVariant, bcSupported, logoutEvent, isLoading, loginInFlight,
                   socketConnected, navPending, syncInit, bcInbox, stInbox>>

\* checkAuth: set({ isLoading: false })
checkAuth(t) ==
    /\ isLoading' = [isLoading EXCEPT ![t] = FALSE]
    /\ authStorage' = persistWrite(user[t])
    /\ UNCHANGED <<storeVariant, bcSupported, logoutEvent, user, sessionExpiredAt, loginInFlight,
                   socketConnected, navPending, syncInit, bcInbox, stInbox>>

\* localStorage.setItem(key, text) and removeItem(key), on the text under
\* one key
setItem(item, text) == Some(text)
removeItem(item) == Null

\* a fallback that leaves the signal key in storage
fallbackSignal_keepsKey(item) ==
    IF storeVariant = "part_003" /\ ~bcSupported
    THEN setItem(item, now)
    ELSE item

\* part_003:50-59: what the broadcast of handleSessionExpiry does to the key
\* carexpert-logout-event.  new BroadcastChannel throws where the primitive
\* is missing, and the catch runs
\*   setItem('carexpert-logout-event', Date.now().toString()); removeItem(..)
\* authstore.ts:44-53 has no broadcast.
fallbackSignal(item) ==
    IF storeVariant = "part_003" /\ ~bcSupported
    THEN removeItem(setItem(item, now))
    ELSE item

\* an expiry the other tabs hear nothing of
expirySignals_none == [bc |-> 0, keys |-> <<>>]

\* what handleSessionExpiry sends to the other tabs.
\*   authstore.ts:44-53  nothing after removeItem: the other tabs see only the
\*                       storage event of the removal of auth-storage
\*   part_003:50-59      BroadcastChannel.postMessage({type:'logout'}), or in
\*                       the catch: setItem + removeItem of carexpert-logout-event
expirySignals ==
    IF storeVariant = "part_003"
    THEN IF bcSupported
         THEN [bc |-> 1, keys |-> <<AUTH_STORAGE_KEY>>]
         ELSE [bc |-> 0, keys |-> <<AUTH_STORAGE_KEY, LOGOUT_EVENT_KEY, LOGOUT_EVENT_KEY>>]
    ELSE [bc |-> 0, keys |-> <<AUTH_STORAGE_KEY>>]

\* a handleSessionExpiry that also abandons the logins in flight
handleSessionExpiry_cancelsLogin(t, nav) ==
    /\ storeVariant \in ExpiryVariants
    /\ navPending' = IF nav THEN [navPending EXCEPT ![t] = TRUE] ELSE navPending
    /\ loginInFlight' = [loginInFlight EXCEPT ![t] = <<>>]
    /\ IF user[t] = Null
       THEN UNCHANGED <<user, sessionExpiredAt, socketConnected, authStorage,
                        logoutEvent, bcInbox, stInbox>>
       ELSE /\ user' = [user EXCEPT ![t] = Null]
            /\ logoutEvent' = fallbackSignal(logoutEvent)
            /\ sessionExpiredAt' = [sessionExpiredAt EXCEPT ![t] = Some(now)]
            /\ socketConnected' = disconnectSocket(t)
            /\ authStorage' = Null
            /\ bcInbox' = [r \in Tabs |->
                    IF r \in listeners(t) THEN bcInbox[r] + expirySignals.bc
                    ELSE bcInbox[r]]
            /\ stInbox' = emitStorage(t, expirySignals.keys)
    /\ UNCHANGED <<storeVariant, bcSupported, isLoading, syncInit>>

\* a handleSessionExpiry without the if (!currentUser) return
handleSessionExpiry_always(t, nav) ==
    /\ storeVariant \in ExpiryVariants
    /\ navPending' = IF nav THEN [navPending EXCEPT ![t] = TRUE] ELSE navPending
    /\ user' = [user EXCEPT ![t] = Null]
    /\ sessionExpiredAt' = [sessionExpiredAt EXCEPT ![t] = Some(now)]
    /\ socketConnected' = disconnectSocket(t)
    /\ authStorage' = Null
    /\ logoutEvent' = fallbackSignal(logoutEvent)
    /\ bcInbox' = [r \in Tabs |->
            IF r \in listeners(t) THEN bcInbox[r] + expirySignals.bc
            ELSE bcInbox[r]]
    /\ stInbox' = emitStorage(t, expirySignals.keys)
    /\ UNCHANGED <<storeVariant, bcSupported, isLoading, loginInFlight, syncInit>>

\* handleSessionExpiry(reason) (authstore.ts:44-53, part_003:40-60):
\* if (!currentUser) return; set; disconnectSocket; removeItem; the signals.
\* nav: the caller assigns window.location.href right after the call.
handleSessionExpiry(t, nav) ==
    /\ storeVariant \in ExpiryVariants
    /\ navPending' = IF nav THEN [navPending EXCEPT ![t] = TRUE] ELSE navPending
    /\ IF user[t] = Null
       THEN UNCHANGED <<user, sessionExpiredAt, socketConnected, authStorage,
                        logoutEvent, bcInbox, stInbox>>
       ELSE /\ user' = [user EXCEPT ![t] = Null]
            /\ logoutEvent' = fallbackSignal(logoutEvent)
            /\ sessionExpiredAt' = [sessionExpiredAt EXCEPT ![t] = Some(now)]
            /\ socketConnected' = disconnectSocket(t)
            \* set() wrote {user: null}; removeItem then removes the key
            /\ authStorage' = Null
            /\ bcInbox' = [r \in Tabs |->
                    IF r \in listeners(t) THEN bcInbox[r] + expirySignals.bc
                    ELSE bcInbox[r]]
            /\ stInbox' = emitStorage(t, expirySignals.keys)
    /\ UNCHANGED <<storeVariant, bcSupported, isLoading, loginInFlight, syncInit>>

\* logout, the four versions.  nav: the caller assigns window.location.href
\* right after the call.
\*   authstore.ts:38-40   set({ user: null })
\*   part_003:62-64       get().handleSessionExpiry('user_logout')
\*   part_001:351-355     set({ user: null }); disconnectSocket(); removeItem
\*   part_008:30-39       removeItem; disconnectSocket(); set({ user: null })
logoutThen(t, nav) ==
    CASE storeVariant = "authstore.ts" ->
            /\ user' = [user EXCEPT ![t] = Null]
            /\ navPending' = IF nav THEN [navPending EXCEPT ![t] = TRUE] ELSE navPending
            /\ authStorage' = persistWrite(Null)
            /\ UNCHANGED <<storeVariant, bcSupported, logoutEvent, isLoading, sessionExpiredAt,
                           loginInFlight, socketConnected, syncInit,
                           bcInbox, stInbox>>
      [] storeVariant = "part_003" -> handleSessionExpiry(t, nav)
      [] storeVariant = "part_001" ->
            /\ user' = [user EXCEPT ![t] = Null]
            /\ navPending' = IF nav THEN [navPending EXCEPT ![t] = TRUE] ELSE navPending
            /\ socketConnected' = disconnectSocket(t)
            /\ authStorage' = Null
            /\ UNCHANGED <<storeVariant, bcSupported, logoutEvent, isLoading, sessionExpiredAt,
                           loginInFlight, syncInit, bcInbox, stInbox>>
      [] storeVariant = "part_008" ->
            /\ user' = [user EXCEPT ![t] = Null]
            /\ navPending' = IF nav THEN [navPending EXCEPT ![t] = TRUE] ELSE navPending
            /\ socketConnected' = disconnectSocket(t)
            /\ authStorage' = persistWrite(Null)
            /\ UNCHANGED <<storeVariant, bcSupported, logoutEvent, isLoading, sessionExpiredAt,
                           loginInFlight, syncInit, bcInbox, stInbox>>

\* logout() called by the user interface
logout(t) == logoutThen(t, FALSE)

-----------------------------------------------------------------------------
(* login: the request is in flight between login_start and login_settle *)

\* what the authentication request can come back with
LoginOutcomes ==
    [kind : {"ok"}, data : LoginResponses]
    \cup {[kind |-> k, data |-> CHOOSE r \in LoginResponses : TRUE] :
            k \in {"success_false", "http_error", "network"}}

BACKEND_MESSAGE == "Invalid credentials"

\* userData built from the response
\*   authstore.ts:65-76, part_001:366-377   role: loginResponse.role || "PATIENT"
\*   part_003:75-82                         role: res.data.data.role
\*   part_008:49-55                         the same without refreshToken
userData(r) ==
    CASE storeVariant \in {"authstore.ts", "part_001"} ->
            [r EXCEPT !.role = IF r.role = "" THEN "PATIENT" ELSE r.role]
      [] storeVariant = "part_003" -> r
      [] storeVariant = "part_008" -> [r EXCEPT !.refreshToken = Undefined]

\* the message of the Error login() rejects with
\*   authstore.ts:79-85 (authAPI.login, part_006:94-105, throws
\*   Error(response.data.message) on success = false; an AxiosError is an Error)
\*   part_003:86-93 (success = false throws inside the try, and is no AxiosError)
loginError(kind) ==
    IF storeVariant \in {"authstore.ts", "part_001"}
    THEN CASE kind = "success_false" -> BACKEND_MESSAGE
           [] kind = "http_error" -> "Request failed with status code"
           [] kind = "network" -> "Network Error"
    ELSE CASE kind = "success_false" -> "Unknown error occurred"
           [] kind = "http_error" -> BACKEND_MESSAGE
           [] kind = "network" -> "Unknown error occurred"

\* set({ isLoading: true, sessionExpiredAt: null }), then the request leaves
login_start(t, email) ==
    /\ Len(loginInFlight[t]) < MaxInFlight
    /\ loginInFlight' = [loginInFlight EXCEPT ![t] = Append(@, email)]
    /\ isLoading' = [isLoading EXCEPT ![t] = TRUE]
    /\ sessionExpiredAt' = [sessionExpiredAt EXCEPT ![t] = Null]
    /\ authStorage' = persistWrite(user[t])
    /\ UNCHANGED <<storeVariant, bcSupported, logoutEvent, user, socketConnected, navPending,
                   syncInit, bcInbox, stInbox>>

\* what is left of the calls in flight when the i-th has settled
settled(calls, i) == SubSeq(calls, 1, i - 1) \o SubSeq(calls, i + 1, Len(calls))

\* a login whose continuation runs only if no later call was made
login_settle_latestOnly(t, i, o) ==
    /\ i \in 1..Len(loginInFlight[t])
    /\ o.kind = "ok" => o.data.email = loginInFlight[t][i]
    /\ loginInFlight' = [loginInFlight EXCEPT ![t] = settled(@, i)]
    /\ isLoading' = [isLoading EXCEPT ![t] = FALSE]
    /\ IF o.kind = "ok" /\ i = Len(loginInFlight[t])
       THEN /\ user' = [user EXCEPT ![t] = Some(userData(o.data))]
            /\ sessionExpiredAt' =
                  IF storeVariant = "part_003"
                  THEN [sessionExpiredAt EXCEPT ![t] = Null]
                  ELSE sessionExpiredAt
       ELSE /\ UNCHANGED <<user, sessionExpiredAt>>
    /\ loginRejection' =
            [loginRejection EXCEPT ![t] =
                IF o.kind = "ok" THEN Null ELSE Some(loginError(o.kind))]
    /\ authStorage' = persistWrite(user'[t])
    /\ UNCHANGED <<storeVariant, bcSupported, logoutEvent, socketConnected, navPending,
                   syncInit, bcInbox, stInbox>>

\* the awaited request of the i-th call in flight settles: the rest of the
\* try, or the catch.  A successful response is the account of the email
\* the call was made with.
login_settle(t, i, o) ==
    /\ i \in 1..Len(loginInFlight[t])
    /\ o.kind = "ok" => o.data.email = loginInFlight[t][i]
    /\ loginInFlight' = [loginInFlight EXCEPT ![t] = settled(@, i)]
    /\ isLoading' = [isLoading EXCEPT ![t] = FALSE]
    /\ IF o.kind = "ok"
       THEN /\ user' = [user EXCEPT ![t] = Some(userData(o.data))]
            /\ sessionExpiredAt' =
                  IF storeVariant = "part_003"
                  THEN [sessionExpiredAt EXCEPT ![t] = Null]
                  ELSE sessionExpiredAt
       ELSE /\ UNCHANGED <<user, sessionExpiredAt>>
    /\ loginRejection' =
            [loginRejection EXCEPT ![t] =
                IF o.kind = "ok" THEN Null ELSE Some(loginError(o.kind))]
    /\ authStorage' = persistWrite(user'[t])
    /\ UNCHANGED <<storeVariant, bcSupported, logoutEvent, socketConnected, navPending,
                   syncInit, bcInbox, stInbox>>

-----------------------------------------------------------------------------
(* Cross-tab sync: initCrossTabSync (authstore.ts:97-147, part_003:102-152) *)

initCrossTabSync(t) ==
    /\ storeVariant \in ExpiryVariants
    /\ ~syncInit[t]
    /\ syncInit' = [syncInit EXCEPT ![t] = TRUE]
    /\ UNCHANGED <<storeVariant, bcSupported, logoutEvent, user, isLoading, sessionExpiredAt,
                   loginInFlight, socketConnected, navPending, bcInbox, stInbox,
                   authStorage>>

\* the cleanup function initCrossTabSync returns: channel.close() and
\* removeEventListener; events not yet dispatched are dropped
cleanupCrossTabSync(t) ==
    /\ syncInit[t]
    /\ syncInit' = [syncInit EXCEPT ![t] = FALSE]
    /\ bcInbox' = [bcInbox EXCEPT ![t] = 0]
    /\ stInbox' = [stInbox EXCEPT ![t] = <<>>]
    /\ UNCHANGED <<storeVariant, bcSupported, logoutEvent, user, isLoading, sessionExpiredAt,
                   loginInFlight, socketConnected, navPending, authStorage>>

\* a receiving tab that navigates but keeps its session
remoteLogout_keepsUser(t, removeRecord) ==
    /\ navPending' = [navPending EXCEPT ![t] = TRUE]
    /\ UNCHANGED <<user, sessionExpiredAt, socketConnected, authStorage>>

\* the body shared by channel.onmessage and the carexpert-logout-event branch:
\* set; disconnectSocket; removeItem('auth-storage'); location.href
remoteLogout(t, removeRecord) ==
    /\ user' = [user EXCEPT ![t] = Null]
    /\ sessionExpiredAt' = [sessionExpiredAt EXCEPT ![t] = Some(now)]
    /\ socketConnected' = disconnectSocket(t)
    /\ navPending' = [navPending EXCEPT ![t] = TRUE]
    /\ authStorage' = IF removeRecord THEN Null ELSE persistWrite(Null)

\* a channel.onmessage without the if (currentUser) test
onBroadcastLogout_unguarded(t) ==
    /\ bcInbox[t] > 0
    /\ remoteLogout(t, TRUE)
    /\ stInbox' = emitStorage(t, <<AUTH_STORAGE_KEY>>)
    /\ bcInbox' = [bcInbox EXCEPT ![t] = @ - 1]
    /\ UNCHANGED <<storeVariant, bcSupported, logoutEvent, isLoading, loginInFlight, syncInit>>

\* channel.onmessage with event.data.type = 'logout'
onBroadcastLogout(t) ==
    /\ bcInbox[t] > 0
    /\ IF user[t] # Null
       THEN /\ remoteLogout(t, TRUE)
            /\ stInbox' = emitStorage(t, <<AUTH_STORAGE_KEY>>)
       ELSE UNCHANGED <<user, sessionExpiredAt, socketConnected, navPending,
                        authStorage, stInbox>>
    /\ bcInbox' = [bcInbox EXCEPT ![t] = @ - 1]
    /\ UNCHANGED <<storeVariant, bcSupported, logoutEvent, isLoading, loginInFlight, syncInit>>

\* handleStorageEvent for the event at the head of the queue.  Events on
\* auth-storage with a non-null newValue match no branch and are not queued.
handleStorageEvent(t) ==
    /\ stInbox[t] # <<>>
    /\ LET key == Head(stInbox[t])
           rest == [stInbox EXCEPT ![t] = Tail(@)]
       IN IF user[t] = Null
          THEN /\ stInbox' = rest
               /\ UNCHANGED <<user, sessionExpiredAt, socketConnected, navPending,
                              authStorage>>
          ELSE IF key = LOGOUT_EVENT_KEY
               THEN /\ remoteLogout(t, TRUE)
                    /\ stInbox' = [r \in Tabs |->
                          IF r \in listeners(t) THEN rest[r] \o <<AUTH_STORAGE_KEY>>
                          ELSE rest[r]]
               ELSE \* key = 'auth-storage' && newValue === null
                    /\ remoteLogout(t, FALSE)
                    /\ stInbox' = rest
    /\ UNCHANGED <<storeVariant, bcSupported, logoutEvent, isLoading, loginInFlight, syncInit,
                   bcInbox>>

-----------------------------------------------------------------------------
(* Page load: a new document creates the store and persist rehydrates it    *)
(* from localStorage; timers, listeners and requests of the old document    *)
(* are gone.  Depending on its version the middleware writes the            *)
(* rehydrated state back.                                                   *)
\* a page load whose store starts empty instead of reading the record
rehydrate_fresh(t, writeBack) ==
    /\ user' = [user EXCEPT ![t] = Null]
    /\ isLoading' = [isLoading EXCEPT ![t] = TRUE]
    /\ sessionExpiredAt' = [sessionExpiredAt EXCEPT ![t] = Null]
    /\ loginInFlight' = [loginInFlight EXCEPT ![t] = <<>>]
    /\ socketConnected' = disconnectSocket(t)
    /\ navPending' = [navPending EXCEPT ![t] = FALSE]
    /\ syncInit' = [syncInit EXCEPT ![t] = FALSE]
    /\ bcInbox' = [bcInbox EXCEPT ![t] = 0]
    /\ stInbox' = [stInbox EXCEPT ![t] = <<>>]
    /\ authStorage' = IF writeBack THEN persistWrite(user'[t]) ELSE authStorage
    /\ UNCHANGED <<storeVariant, bcSupported, logoutEvent>>

rehydrate(t, writeBack) ==
    /\ user' = [user EXCEPT ![t] = IF authStorage = Null THEN Null
                                    ELSE authStorage[1].user]
    /\ isLoading' = [isLoading EXCEPT ![t] = TRUE]
    /\ sessionExpiredAt' = [sessionExpiredAt EXCEPT ![t] = Null]
    /\ loginInFlight' = [loginInFlight EXCEPT ![t] = <<>>]
    /\ socketConnected' = disconnectSocket(t)
    /\ navPending' = [navPending EXCEPT ![t] = FALSE]
    /\ syncInit' = [syncInit EXCEPT ![t] = FALSE]
    /\ bcInbox' = [bcInbox EXCEPT ![t] = 0]
    /\ stInbox' = [stInbox EXCEPT ![t] = <<>>]
    /\ authStorage' = IF writeBack THEN persistWrite(user'[t]) ELSE authStorage
    /\ UNCHANGED <<storeVariant, bcSupported, logoutEvent>>

-----------------------------------------------------------------------------
(* HTTP client: the response interceptor's 401 branch and its guard         *)
(* (NotFound.tsx:67-92, the same text as lib/api.ts:41-63)                  *)

\* setTimeout(.., 2000), in units of 1000 ms
COOLDOWN == 2

NoBurst == [n401 |-> 0, toasts |-> 0, expiryCalls |-> 0, navs |-> 0, no |-> 0]

NoError == [status |-> 0, toast |-> Null, result |-> "none"]

\* an interceptor that swallows the error instead of passing it on
interceptorResult_swallow(status) == "resolve"

\* the last statement of every error interceptor: return Promise.reject(error)
interceptorResult(status) == "reject"

\* an interceptor without the guard (NotFound.tsx:94-124 is one)
shouldRecover_unguarded(t) == TRUE

\* if (!isHandlingUnauthorized): whether this 401 runs the recovery sequence
shouldRecover(t) == ~isHandlingUnauthorized[t]

\* an error response with status 401 reaches the interceptor
onUnauthorized(t) ==
    /\ burst[t].n401 < Max401
    /\ IF shouldRecover(t)
       THEN /\ burst[t].no < MaxBursts
            /\ isHandlingUnauthorized' = [isHandlingUnauthorized EXCEPT ![t] = TRUE]
            \* toast.error; handleSessionExpiry('api_unauthorized'); location.href
            /\ handleSessionExpiry(t, TRUE)
            /\ resetTimers' = [resetTimers EXCEPT ![t] = Append(@, COOLDOWN)]
            /\ burst' = [burst EXCEPT ![t] =
                            [n401 |-> @.n401 + 1, toasts |-> @.toasts + 1,
                             expiryCalls |-> @.expiryCalls + 1,
                             navs |-> @.navs + 1, no |-> @.no + 1]]
       ELSE /\ burst' = [burst EXCEPT ![t].n401 = @ + 1]
            /\ UNCHANGED <<storeVars, isHandlingUnauthorized, resetTimers>>
    /\ lastError' = [status |-> 401,
                     toast |-> IF shouldRecover(t)
                               THEN Some("Session expired. Please log in again.")
                               ELSE Null,
                     result |-> interceptorResult(401)]

\* a reset that does not wait for the timer
onResetTimer_early(t) ==
    /\ resetTimers[t] # <<>>
    /\ resetTimers' = [resetTimers EXCEPT ![t] = Tail(@)]
    /\ isHandlingUnauthorized' = [isHandlingUnauthorized EXCEPT ![t] = FALSE]
    /\ burst' = [burst EXCEPT ![t] = [NoBurst EXCEPT !.no = burst[t].no]]
    /\ UNCHANGED storeVars

\* the setTimeout callback: isHandlingUnauthorized = false.  The cool-down
\* that was running is over, and what follows is a new burst.
onResetTimer(t) ==
    /\ resetTimers[t] # <<>>
    /\ Head(resetTimers[t]) = 0
    /\ resetTimers' = [resetTimers EXCEPT ![t] = Tail(@)]
    /\ isHandlingUnauthorized' = [isHandlingUnauthorized EXCEPT ![t] = FALSE]
    /\ burst' = [burst EXCEPT ![t] = [NoBurst EXCEPT !.no = burst[t].no]]
    /\ UNCHANGED storeVars

-----------------------------------------------------------------------------
(* The other HTTP clients: createApiInstance (part_006:46-83) and            *)
(* services/api.ts:96-134.  Neither has the guard.                           *)

ApiVariants == {"NotFound.tsx", "part_006", "services/api.ts"}
ErrorStatuses == {401, 403, 404, 500}
AuthTokens == {Null, Some("tok")}

\* the config a request leaves with.  Every client is created with
\* withCredentials: true; only services/api.ts has a request interceptor:
\*   const token = localStorage.getItem("authToken");
\*   if (token) config.headers.Authorization = `Bearer ${token}`
requestConfig(v) ==
    [withCredentials |-> TRUE,
     Authorization |-> IF v = "services/api.ts" /\ authToken # Null
                       THEN Some(<<"Bearer", authToken[1]>>)
                       ELSE Null]

sendRequest(v) ==
    /\ lastRequest' = Some(requestConfig(v))
    /\ UNCHANGED <<authToken, lastError>>

\* an interceptor that shows nothing
errorToast_silent(v, status) == Null

\* the toast of the response interceptor for an error status
errorToast(v, status) ==
    IF v = "part_006"
    THEN CASE status = 401 -> Some("Session expired. Please log in again.")
           [] status = 403 -> Some("You do not have permission to perform this action.")
           [] status = 500 -> Some("Server error. Please try again later.")
           [] OTHER -> Null
    ELSE CASE status = 401 -> Some("Your session has expired. Please login again.")
           [] status = 403 -> Some("You don't have permission to perform this action")
           [] status = 500 -> Some("Server error. Please try again later.")
           [] OTHER -> Null

\* the response interceptor of part_006 (58-80) and of services/api.ts
\* (119-134) for an error response with this status.
\*   part_006, 401:         toast; useAuthStore.getState().logout(); href
\*   services/api.ts, 401:  removeItem("authToken"); removeItem("auth-storage");
\*                          href; toast (the store itself is not told)
\*   403, 500:              toast
\* and in every case return Promise.reject(error)
onErrorResponse(v, t, status) ==
    /\ v \in {"part_006", "services/api.ts"}
    /\ lastError' = [status |-> status, toast |-> errorToast(v, status),
                     result |-> interceptorResult(status)]
    /\ IF status = 401
       THEN IF v = "part_006"
            THEN logoutThen(t, TRUE) /\ UNCHANGED authToken
            ELSE /\ authToken' = Null
                 /\ authStorage' = Null
                 /\ stInbox' = IF authStorage = Null THEN stInbox
                                ELSE emitStorage(t, <<AUTH_STORAGE_KEY>>)
                 /\ navPending' = [navPending EXCEPT ![t] = TRUE]
                 /\ UNCHANGED <<storeVariant, bcSupported, logoutEvent, user, isLoading,
                                sessionExpiredAt, loginInFlight, socketConnected,
                                syncInit, bcInbox>>
       ELSE UNCHANGED <<storeVars, authToken>>
    /\ UNCHANGED <<lastRequest, httpVars>>

\* a new document evaluates the api module again
reloadHttp(t) ==
    /\ isHandlingUnauthorized' = [isHandlingUnauthorized EXCEPT ![t] = FALSE]
    /\ resetTimers' = [resetTimers EXCEPT ![t] = <<>>]
    /\ burst' = [burst EXCEPT ![t] = [NoBurst EXCEPT !.no = burst[t].no]]

\* one unit of time passes
Tick ==
    /\ now < MaxTime
    /\ now' = now + 1
    /\ resetTimers' = [t \in Tabs |->
            [i \in 1..Len(resetTimers[t]) |->
                IF resetTimers[t][i] > 0 THEN resetTimers[t][i] - 1 ELSE 0]]
    /\ UNCHANGED <<storeVars, isHandlingUnauthorized, burst, hookVars, cacheVars,
                   loginRejection, apiVars, chatVars, helperVars>>

-----------------------------------------------------------------------------
(* useChatSocket (part_001:265-307).  Hooks are the components of tab "A"   *)
(* that call the hook; each has its own handlersRef and onSocketMessage.    *)
(* A handler is a function; what it does when called is chosen at the call. *)

HookTab == "A"
Hooks == {"h1", "h2"}
Handlers == {"f1", "f2", "f3"}

Idle == [active |-> FALSE, ls |-> <<>>, arr |-> <<>>, i |-> 1]

\* what a handler may do when it is called: return, throw, or call
\* subscribe / a returned unsubscribe function of the hook it is registered
\* with and return
Behaviours ==
    {[kind |-> k, f |-> Undefined] : k \in {"return", "throw"}}
        \cup {[kind |-> k, f |-> f] : k \in {"subscribe", "unsubscribe"}, f \in Handlers}

\* removal of one registration only: the first of the handler
RECURSIVE filterOut_firstOnly(_, _)
filterOut_firstOnly(arr, handler) ==
    IF arr = <<>> THEN <<>>
    ELSE IF Head(arr) # handler
         THEN <<Head(arr)>> \o filterOut_firstOnly(Tail(arr), handler)
         ELSE Tail(arr)

\* handlersRef.current.filter((h) => h !== handler)
RECURSIVE filterOut(_, _)
filterOut(arr, handler) ==
    IF arr = <<>> THEN <<>>
    ELSE IF Head(arr) # handler
         THEN <<Head(arr)>> \o filterOut(Tail(arr), handler)
         ELSE filterOut(Tail(arr), handler)

\* socket.off('message', fn): the listener fn is taken off the list
RECURSIVE removeListener(_, _)
removeListener(ls, fn) ==
    IF ls = <<>> THEN <<>>
    ELSE IF Head(ls) = fn THEN Tail(ls)
         ELSE <<Head(ls)>> \o removeListener(Tail(ls), fn)

\* the functions components pass to onMessage and offMessage
Callbacks == {"c1", "c2"}

\* (msg) => { callback(msg) }: the function onMessage hands to socket.on.
\* Every call of onMessage makes a new one; none is a callback or a hook's
\* onSocketMessage, which is all that socket.off compares them with.
wrapper(callback) ==
    IF callback = "c1" THEN "(msg) => c1(msg)" ELSE "(msg) => c2(msg)"

Wrappers == {wrapper(callback) : callback \in Callbacks}

\* the callback a wrapper calls
callbackOf(l) == CHOOSE callback \in Callbacks : wrapper(callback) = l

\* what a 'message' listener calls, in order: a hook's onSocketMessage the
\* array of its registry, a wrapper its callback
listenerCalls(l) ==
    IF l \in Hooks THEN handlersRef[l] ELSE <<callbackOf(l)>>

\* onMessage(callback): socket.on("message", wrapper)
onMessage(callback) ==
    socketListeners' = Append(socketListeners, wrapper(callback))

\* an offMessage(callback) that finds the wrapper of the callback
offMessage_unwraps(callback) ==
    socketListeners' =
        IF callback # Null
        THEN removeListener(socketListeners, wrapper(callback[1]))
        ELSE <<>>

\* offMessage(callback?): socket.off("message", callback) takes the
\* listener that is the callback off the list; socket.off("message") takes
\* every listener of the event off
offMessage(callback) ==
    socketListeners' =
        IF callback # Null
        THEN removeListener(socketListeners, callback[1])
        ELSE <<>>

\* subscribe(handler): push, and return the unsubscribe function
subscribe(h, handler) ==
    handlersRef' = [handlersRef EXCEPT ![h] = Append(@, handler)]

\* the function returned by subscribe(handler).  Called for a handler that
\* is not in the array it leaves the array as it was.
unsubscribe(h, handler) ==
    handlersRef' = [handlersRef EXCEPT ![h] = filterOut(@, handler)]

\* the registrations held by all the hooks
regCount ==
    LET RECURSIVE Sum(_)
        Sum(S) == IF S = {} THEN 0
                  ELSE LET x == CHOOSE y \in S : TRUE
                       IN Len(handlersRef[x]) + Sum(S \ {x})
    IN Sum(Hooks)

NoRegs == [regs |-> [h \in Hooks |-> <<>>], ls |-> <<>>]

\* the effect of the hook: connect lazily, attach onSocketMessage
mount(h) ==
    /\ ~mounted[h]
    /\ mounted' = [mounted EXCEPT ![h] = TRUE]
    /\ socketConnected' = connectSocket(HookTab)
    /\ socketListeners' = Append(socketListeners, h)

\* a cleanup that also closes the connection
unmount_disconnects(h) ==
    /\ mounted[h]
    /\ mounted' = [mounted EXCEPT ![h] = FALSE]
    /\ socketListeners' = removeListener(socketListeners, h)
    /\ socketConnected' = disconnectSocket(HookTab)

\* the effect's cleanup: detach onSocketMessage, leave the socket connected
unmount(h) ==
    /\ mounted[h]
    /\ mounted' = [mounted EXCEPT ![h] = FALSE]
    /\ socketListeners' = removeListener(socketListeners, h)
    /\ UNCHANGED socketConnected

\* a 'message' event arrives on the connected socket: the listeners attached
\* at that moment are called in order
emitMessage ==
    /\ socketConnected[HookTab]
    /\ socketListeners # <<>>
    /\ dispatch' = [active |-> TRUE, ls |-> socketListeners,
                    arr |-> listenerCalls(Head(socketListeners)), i |-> 1]
    /\ invoked' = <<>>
    /\ threw' = {}
    /\ startRegs' = [regs |-> handlersRef, ls |-> socketListeners]
    /\ UNCHANGED <<mounted, handlersRef, socketListeners, transportError>>

\* h(msg) outside a try: the exception ends forEach and leaves the listener
handlerThrew_uncaught(d) == [d |-> Idle, escaped |-> TRUE]

\* callback(msg) in a wrapper, which has no try: the exception leaves the
\* listener and ends the delivery
wrapperThrew(d) == [d |-> Idle, escaped |-> TRUE]

\* try { h(msg) } catch (e) { console.error(..) }: what becomes of the
\* delivery when h throws, and whether the exception leaves onSocketMessage
handlerThrew(d) == [d |-> [d EXCEPT !.i = @ + 1], escaped |-> FALSE]

\* an iteration from the last element to the first
handlerAt_reversed(arr, i) == arr[Len(arr) + 1 - i]

\* an iteration that reads the hook's current array where it has an i-th
\* element
handlerAt_live(arr, i) ==
    LET cur == handlersRef[Head(dispatch.ls)]
    IN IF i <= Len(cur) THEN cur[i] ELSE arr[i]

\* forEach: the element of the array it calls at its i-th step
handlerAt(arr, i) == arr[i]

\* forEach calls the next handler of the array it iterates
invokeHandler(b) ==
    /\ dispatch.active
    /\ dispatch.i <= Len(dispatch.arr)
    /\ LET h == Head(dispatch.ls)
           f == handlerAt(dispatch.arr, dispatch.i)
           next == [dispatch EXCEPT !.i = @ + 1]
       IN IF h \in Wrappers /\ b.kind = "throw"
          THEN \* the exception ends the delivery: its record is dropped
               /\ dispatch' = wrapperThrew(dispatch).d
               /\ transportError' =
                        (transportError \/ wrapperThrew(dispatch).escaped)
               /\ invoked' = <<>>
               /\ threw' = {}
               /\ startRegs' = NoRegs
               /\ UNCHANGED handlersRef
          ELSE /\ invoked' = Append(invoked, <<h, f>>)
               /\ UNCHANGED startRegs
               /\ CASE b.kind = "return" ->
                         /\ dispatch' = next
                         /\ UNCHANGED <<handlersRef, threw, transportError>>
                    [] b.kind = "throw" ->
                         /\ dispatch' = handlerThrew(dispatch).d
                         /\ transportError' =
                                 (transportError \/ handlerThrew(dispatch).escaped)
                         /\ threw' = threw \cup {Len(invoked) + 1}
                         /\ UNCHANGED handlersRef
                    [] b.kind = "subscribe" ->
                         /\ h \in Hooks
                         /\ regCount < MaxRegs
                         /\ subscribe(h, b.f)
                         /\ dispatch' = next
                         /\ UNCHANGED <<threw, transportError>>
                    [] b.kind = "unsubscribe" ->
                         /\ h \in Hooks
                         /\ unsubscribe(h, b.f)
                         /\ dispatch' = next
                         /\ UNCHANGED <<threw, transportError>>
    /\ UNCHANGED <<mounted, socketListeners>>

\* forEach is over: the next listener of the event is called, if any;
\* after the last one the delivery is over and its record is dropped
endOfHandlers ==
    /\ dispatch.active
    /\ dispatch.i > Len(dispatch.arr)
    /\ IF Tail(dispatch.ls) # <<>>
       THEN /\ dispatch' = [active |-> TRUE, ls |-> Tail(dispatch.ls),
                            arr |-> listenerCalls(Head(Tail(dispatch.ls))),
                            i |-> 1]
            /\ UNCHANGED <<invoked, threw, startRegs>>
       ELSE /\ dispatch' = Idle
            /\ invoked' = <<>>
            /\ threw' = {}
            /\ startRegs' = NoRegs
    /\ UNCHANGED <<mounted, handlersRef, socketListeners, transportError>>

-----------------------------------------------------------------------------
(* CacheManager (part_002) of tab "A".  A stored text is what               *)
(* JSON.stringify made of a CacheItem; payloads are JSON values.            *)

Backends == {"local", "session"}
CacheKeys == {"k1", "k2"}
JNull == "null"
Payloads == {"v1", JNull}
\* options.ttl: undefined, or a number of time units
TtlOptions == {Null} \cup {Some(n) : n \in 0..MaxTtl}

\* JSON.stringify(cacheItem) and JSON.parse(item)
stringify(cacheItem) == <<"json", cacheItem>>
parse(text) ==
    IF text[1] = "json" THEN [ok |-> TRUE, cacheItem |-> text[2]]
    ELSE [ok |-> FALSE, cacheItem |-> Undefined]

\* a cache whose entries never expire
isExpired_never(cacheItem, t) == FALSE

\* a test that takes a ttl of 0 for a lifetime of 0
isExpired_zeroIsATtl(cacheItem, t) ==
    /\ cacheItem.ttl # Null
    /\ t - cacheItem.timestamp > cacheItem.ttl[1]

\* if (cacheItem.ttl) { const age = Date.now() - cacheItem.timestamp;
\*                      if (age > cacheItem.ttl) ..
isExpired(cacheItem, t) ==
    /\ cacheItem.ttl # Null
    /\ cacheItem.ttl[1] # 0
    /\ t - cacheItem.timestamp > cacheItem.ttl[1]

Throws == "throws"

\* a catch block that passes the exception on to the caller
writeFailed_rethrows(op) == Throws

\* catch (error) { console.error('Cache set error:', error) } and the same in
\* remove and clear: what the caller gets when the storage call threw
writeFailed(op) == Undefined

\* the entries present in both areas
entryCount == Cardinality({s \in Backends \X CacheKeys : cacheStore[s[1]][s[2]] # Null})

\* set(key, data, {ttl, storage}); setItem may throw (quota), which is caught
cacheSet(b, k, data, ttl, quotaExceeded) ==
    LET cacheItem == [data |-> data, timestamp |-> now, ttl |-> ttl]
    IN /\ IF quotaExceeded
          THEN UNCHANGED cacheStore
          ELSE cacheStore' = [cacheStore EXCEPT ![b][k] = Some(stringify(cacheItem))]
       /\ cacheRet' = IF quotaExceeded THEN writeFailed("set") ELSE Undefined
       /\ UNCHANGED <<authStorage, authToken, logoutEvent>>

\* a catch block that passes the exception on to the caller
readFailed_rethrows(cause) == Throws

\* catch (error) { console.error('Cache get error:', error); return null }:
\* what get returns when getItem or JSON.parse threw
readFailed(cause) == JNull

\* a text that JSON.parse rejects
NOT_JSON == <<"text", "not json">>

\* other code of the origin leaves such a text under a key of the cache
foreignWrite(b, k) ==
    /\ cacheStore' = [cacheStore EXCEPT ![b][k] = Some(NOT_JSON)]
    /\ UNCHANGED <<cacheRet, authStorage, authToken, logoutEvent>>

\* get(key, storage) when getItem throws
cacheGet_readThrows(b, k) ==
    /\ cacheRet' = readFailed("getItem")
    /\ UNCHANGED <<cacheStore, authStorage, authToken, logoutEvent>>

\* a get that answers null for an expired entry and leaves it in storage
cacheGet_keepsStale(b, k) ==
    /\ cacheRet' = IF cacheStore[b][k] = Null THEN JNull
                   ELSE IF isExpired(parse(cacheStore[b][k][1]).cacheItem, now)
                        THEN JNull
                        ELSE parse(cacheStore[b][k][1]).cacheItem.data
    /\ UNCHANGED <<cacheStore, authStorage, authToken, logoutEvent>>

\* a get that tells a stored null from a missing entry
cacheGet_marksStoredNull(b, k) ==
    LET item == cacheStore[b][k]
    IN /\ IF item = Null
          THEN /\ cacheRet' = JNull
               /\ UNCHANGED cacheStore
          ELSE IF ~parse(item[1]).ok
          THEN /\ cacheRet' = JNull
               /\ UNCHANGED cacheStore
          ELSE IF isExpired(parse(item[1]).cacheItem, now)
          THEN /\ cacheStore' = [cacheStore EXCEPT ![b][k] = Null]
               /\ cacheRet' = JNull
          ELSE /\ cacheRet' = IF parse(item[1]).cacheItem.data = JNull
                              THEN "stored null"
                              ELSE parse(item[1]).cacheItem.data
               /\ UNCHANGED cacheStore
       /\ UNCHANGED <<authStorage, authToken, logoutEvent>>

\* get(key, storage)
cacheGet(b, k) ==
    LET item == cacheStore[b][k]
    IN /\ IF item = Null
          THEN /\ cacheRet' = JNull
               /\ UNCHANGED cacheStore
          ELSE IF ~parse(item[1]).ok
          THEN /\ cacheRet' = readFailed("parse")
               /\ UNCHANGED cacheStore
          ELSE IF isExpired(parse(item[1]).cacheItem, now)
          THEN /\ cacheStore' = [cacheStore EXCEPT ![b][k] = Null]
               /\ cacheRet' = JNull
          ELSE /\ cacheRet' = parse(item[1]).cacheItem.data
               /\ UNCHANGED cacheStore
       /\ UNCHANGED <<authStorage, authToken, logoutEvent>>

\* remove(key, storage); removeItem may throw, which is caught
cacheRemove(b, k, storageThrows) ==
    /\ IF storageThrows
       THEN cacheRet' = writeFailed("remove") /\ UNCHANGED cacheStore
       ELSE /\ cacheStore' = [cacheStore EXCEPT ![b][k] = Null]
            /\ cacheRet' = Undefined
    /\ UNCHANGED <<authStorage, authToken, logoutEvent>>

\* what the awaited fetchFn() comes back with
Rejected == "rejected"
FetchOutcomes ==
    [kind : {"resolve"}, data : Payloads] \cup {[kind |-> "reject", data |-> JNull]}

\* a getOrFetch that fetches whatever the cache holds
isHit_never(cached) == FALSE

\* if (cached !== null) return cached
isHit(cached) == cached # JNull

\* a getOrFetch that joins the fetch another call has in flight for the key
getOrFetch_start_joins(b, k, ttl) ==
    /\ cacheGet(b, k)
    /\ fetches' = IF isHit(cacheRet')
                     \/ \E i \in 1..Len(fetches) :
                            fetches[i].backend = b /\ fetches[i].key = k
                  THEN fetches
                  ELSE Append(fetches, [backend |-> b, key |-> k, ttl |-> ttl])

\* getOrFetch(key, fetchFn, options) up to the await: this.get(key,
\* options.storage); on a hit the value is returned, otherwise fetchFn() is
\* called and awaited
getOrFetch_start(b, k, ttl) ==
    /\ cacheGet(b, k)
    /\ fetches' = IF isHit(cacheRet') THEN fetches
                  ELSE Append(fetches, [backend |-> b, key |-> k, ttl |-> ttl])

\* the same when getItem throws inside this.get
getOrFetch_startReadThrows(b, k, ttl) ==
    /\ cacheGet_readThrows(b, k)
    /\ fetches' = IF isHit(cacheRet') THEN fetches
                  ELSE Append(fetches, [backend |-> b, key |-> k, ttl |-> ttl])

\* the rest of getOrFetch for the i-th call in flight: fetchFn() resolved
\* with data (this.set(key, data, options); return data) or rejected
getOrFetch_settle(i, o, quotaExceeded) ==
    /\ i \in 1..Len(fetches)
    /\ fetches' = [j \in 1..(Len(fetches) - 1) |->
                        IF j < i THEN fetches[j] ELSE fetches[j + 1]]
    /\ IF o.kind = "resolve"
       THEN /\ cacheStore' =
                    IF quotaExceeded THEN cacheStore
                    ELSE [cacheStore EXCEPT ![fetches[i].backend][fetches[i].key] =
                            Some(stringify([data |-> o.data, timestamp |-> now,
                                            ttl |-> fetches[i].ttl]))]
            /\ cacheRet' = o.data
       ELSE /\ cacheRet' = Rejected
            /\ UNCHANGED cacheStore
    /\ UNCHANGED <<authStorage, authToken, logoutEvent>>

\* clear(storage): Storage.clear() empties the whole area, and localStorage
\* is also where the auth store's record is
cacheClear(b, storageThrows) ==
    IF storageThrows
    THEN cacheRet' = writeFailed("clear") /\ UNCHANGED <<cacheStore, authStorage, authToken, logoutEvent>>
    ELSE /\ cacheStore' = [cacheStore EXCEPT ![b] = [k \in CacheKeys |-> Null]]
         /\ cacheRet' = Undefined
         /\ authStorage' = IF b = "local" THEN Null ELSE authStorage
         /\ authToken' = IF b = "local" THEN Null ELSE authToken
         /\ logoutEvent' = IF b = "local" THEN Null ELSE logoutEvent

-----------------------------------------------------------------------------
(* cachedRequest (lib/api-helper.ts:20-56): an axios call with a cache      *)
(* directive { key, ttl?, storage? } in its config.                         *)

\* config.method: absent, or a string in any case
Methods == {Null, Some("GET"), Some("get"), Some("POST")}

\* String.prototype.toUpperCase on the method names in use
toUpperCase(str) == IF str = "get" THEN "GET" ELSE str

\* !axiosConfig.method || axiosConfig.method.toUpperCase() === 'GET'
isGetStyle(method) == method = Null \/ toUpperCase(method[1]) = "GET"

\* CACHE_TTL.MEDIUM (part_002:128), in units of the clock
CACHE_TTL_MEDIUM == 2

RequestKeys == {"k1"}
\* config.cache: absent, or { key, ttl?, storage? }
CacheDirectives ==
    {Null} \cup {Some([key |-> k, ttl |-> ttl, storage |-> st]) :
                    k \in RequestKeys, ttl \in {Null, Some(0), Some(1)},
                    st \in {Null, Some("session")}}

\* the storage parameter's default: storage = 'local'
storageOf(cacheConfig) ==
    IF cacheConfig.storage = Null THEN "local" ELSE cacheConfig.storage[1]

\* ttl: cacheConfig.ttl || CACHE_TTL.MEDIUM
ttlOf(cacheConfig) ==
    IF cacheConfig.ttl = Null \/ cacheConfig.ttl[1] = 0
    THEN Some(CACHE_TTL_MEDIUM) ELSE cacheConfig.ttl

\* how axios(axiosConfig) ends: it resolves with a 2xx response, rejects
\* otherwise
ResponseOutcomes ==
    [kind : {"response"}, status : {200, 201}, data : Payloads]
    \cup {[kind |-> "reject", status |-> 500, data |-> JNull]}

\* the response built from a cached value
cachedResponse(data) == [data |-> data, status |-> 200, statusText |-> "OK (Cached)"]
networkResponse(o) == [data |-> o.data, status |-> o.status, statusText |-> "OK"]
\* the call rejected with the error of axios
rejection(o) == [data |-> JNull, status |-> o.status, statusText |-> Rejected]
\* no call has returned yet
NoResponse == [data |-> JNull, status |-> 0, statusText |-> Undefined]

\* a cachedRequest that stores a response only for the requests it reads
\* the cache for
storesResponse_getOnly(method, cacheConfig, status) ==
    cacheConfig # Null /\ isGetStyle(method) /\ status = 200

\* if (cacheConfig && response.status === 200)
storesResponse(method, cacheConfig, status) ==
    cacheConfig # Null /\ status = 200

\* cachedRequest(config) up to the await: the cache is read for a GET-style
\* request with a directive, and a value other than null is returned as a
\* response; otherwise axios(axiosConfig) is called
cachedRequest_start(method, cacheConfig) ==
    IF cacheConfig # Null /\ isGetStyle(method)
    THEN /\ cacheGet(storageOf(cacheConfig[1]), cacheConfig[1].key)
         /\ IF cacheRet' # JNull
            THEN /\ requestRet' = cachedResponse(cacheRet')
                 /\ UNCHANGED requests
            ELSE /\ requests' = Append(requests, [method |-> method,
                                                  cache |-> cacheConfig])
                 /\ UNCHANGED requestRet
    ELSE /\ requests' = Append(requests, [method |-> method, cache |-> cacheConfig])
         /\ UNCHANGED <<requestRet, cacheStore, cacheRet, authStorage, authToken,
                        logoutEvent>>

\* the rest of cachedRequest for the i-th call in flight
cachedRequest_settle(i, o, quotaExceeded) ==
    /\ i \in 1..Len(requests)
    /\ requests' = settled(requests, i)
    /\ IF o.kind = "response"
       THEN /\ requestRet' = networkResponse(o)
            /\ IF storesResponse(requests[i].method, requests[i].cache, o.status)
               THEN cacheSet(storageOf(requests[i].cache[1]), requests[i].cache[1].key,
                             o.data, ttlOf(requests[i].cache[1]), quotaExceeded)
               ELSE UNCHANGED <<cacheStore, cacheRet, authStorage, authToken,
                                logoutEvent>>
       ELSE /\ requestRet' = rejection(o)
            /\ UNCHANGED <<cacheStore, cacheRet, authStorage, authToken, logoutEvent>>

-----------------------------------------------------------------------------
(* invalidateCache (lib/api-helper.ts:89-102) over localStorage, which      *)
(* holds the entries of the cache's durable area next to auth-storage,      *)
(* authToken and carexpert-logout-event.                                    *)

AUTH_TOKEN_KEY == "authToken"
LocalKeys == CacheKeys \cup {AUTH_STORAGE_KEY, AUTH_TOKEN_KEY, LOGOUT_EVENT_KEY}

\* the characters of a key
keyText(key) ==
    CASE key = "k1" -> <<"k", "1">>
      [] key = "k2" -> <<"k", "2">>
      [] key = AUTH_STORAGE_KEY ->
            <<"a", "u", "t", "h", "-", "s", "t", "o", "r", "a", "g", "e">>
      [] key = AUTH_TOKEN_KEY -> <<"a", "u", "t", "h", "T", "o", "k", "e", "n">>
      [] key = LOGOUT_EVENT_KEY ->
            <<"c", "a", "r", "e", "x", "p", "e", "r", "t", "-", "l", "o", "g", "o",
              "u", "t", "-", "e", "v", "e", "n", "t">>

\* String.prototype.includes
includes(text, pattern) ==
    \E at \in 0..(Len(text) - Len(pattern)) :
        SubSeq(text, at + 1, at + Len(pattern)) = pattern

\* the patterns invalidateCache is called with
Patterns == {<<>>, <<"k">>, <<"k", "1">>, <<"2">>, <<"a", "u", "t", "h">>,
             <<"o", "k">>, <<"z">>}

\* the keys localStorage holds
localKeys ==
    {k \in CacheKeys : cacheStore["local"][k] # Null}
    \cup (IF authStorage # Null THEN {AUTH_STORAGE_KEY} ELSE {})
    \cup (IF authToken # Null THEN {AUTH_TOKEN_KEY} ELSE {})
    \cup (IF logoutEvent # Null THEN {LOGOUT_EVENT_KEY} ELSE {})

\* the orders storage.key(i) may enumerate a set of keys in
Orders(S) ==
    {order \in [1..Cardinality(S) -> S] : \A x \in S : \E i \in DOMAIN order : order[i] = x}

\* a loop that removes a key as soon as it matches: the keys after it move
\* down by one and the next one is never looked at
keysToRemove_skipping(order, pattern) ==
    LET RECURSIVE Walk(_, _)
        Walk(live, i) ==
            IF i > Len(live) THEN <<>>
            ELSE IF includes(keyText(live[i]), pattern)
                 THEN <<live[i]>> \o
                      Walk(SubSeq(live, 1, i - 1) \o SubSeq(live, i + 1, Len(live)), i + 1)
                 ELSE Walk(live, i + 1)
    IN Walk(order, 1)

\* for (i = 0; i < storage.length; i++) { key = storage.key(i);
\*     if (key && key.includes(pattern)) keysToRemove.push(key) }
keysToRemove(order, pattern) ==
    SelectSeq(order, LAMBDA key : includes(keyText(key), pattern))

\* invalidateCache(pattern): keysToRemove.forEach(key => cache.remove(key)),
\* and cache.remove(key) is localStorage.removeItem(key).  The removal of
\* auth-storage is a storage event in the other tabs.
invalidateCache(t, order, pattern) ==
    LET removed == {keysToRemove(order, pattern)[i] :
                        i \in 1..Len(keysToRemove(order, pattern))}
    IN /\ cacheStore' = [cacheStore EXCEPT !["local"] =
                [k \in CacheKeys |-> IF k \in removed THEN Null ELSE @[k]]]
       /\ authStorage' = IF AUTH_STORAGE_KEY \in removed THEN Null ELSE authStorage
       /\ authToken' = IF AUTH_TOKEN_KEY \in removed THEN Null ELSE authToken
       /\ logoutEvent' = IF LOGOUT_EVENT_KEY \in removed THEN Null ELSE logoutEvent
       /\ stInbox' = IF AUTH_STORAGE_KEY \in removed
                     THEN emitStorage(t, <<AUTH_STORAGE_KEY>>) ELSE stInbox
       /\ cacheRet' = IF removed = {} THEN cacheRet ELSE Undefined

-----------------------------------------------------------------------------
(* The chat-history loaders (sockets/socket.ts:74-146) over chatAPI         *)
(* (part_006:625-693).  A loader calls one chatAPI function, which sends    *)
(* one GET and awaits it; the call settles when the request does.           *)

\* loadOneOnOneChatHistory, loadCityChatHistory, loadRoomChatHistory and
\* loadDmChatHistory
ChatSurfaces == {"direct", "city", "room", "dm"}

\* the path of the GET the chatAPI function of a loader sends
chatEndpoint(surface) ==
    CASE surface = "direct" -> "/api/chat/one-on-one"
      [] surface = "dm" -> "/api/chat/one-on-one"
      [] surface = "city" -> "/api/chat/city"
      [] surface = "room" -> "/api/chat/room"

\* how the GET ends: a response whose body has success true or false, or
\* a rejection of api.get (network failure, error status)
ChatOutcomes == {[kind |-> "response", success |-> TRUE],
                 [kind |-> "response", success |-> FALSE],
                 [kind |-> "error"]}

\* a variant that sends the request again when it ended in a failure
chatSettled_retry(load, o) ==
    IF o.kind = "response" /\ o.success
    THEN [load EXCEPT !.result = Some([settled |-> "resolved", success |-> TRUE])]
    ELSE IF Len(load.requests) < 2
         THEN [load EXCEPT !.requests = Append(@, chatEndpoint(load.surface))]
         ELSE [load EXCEPT !.result = Some([settled |-> "rejected", success |-> FALSE])]

\* chatAPI: if (!response.data.success) throw new Error(..); the loader:
\* try { .. return {success: true, data: response} } catch (error) { throw error }
chatSettled(load, o) ==
    IF o.kind = "response" /\ o.success
    THEN [load EXCEPT !.result = Some([settled |-> "resolved", success |-> TRUE])]
    ELSE [load EXCEPT !.result = Some([settled |-> "rejected", success |-> FALSE])]

loadChatHistory_start(surface) ==
    chatLoads' = Append(chatLoads, [surface |-> surface,
                                    requests |-> <<chatEndpoint(surface)>>,
                                    result |-> Null])

loadChatHistory_settle(i, o) ==
    /\ chatLoads[i].result = Null
    /\ chatLoads' = [chatLoads EXCEPT ![i] = chatSettled(chatLoads[i], o)]

-----------------------------------------------------------------------------
(* The operations as steps of the whole system *)

rest == <<now, httpVars, hookVars, cacheVars, loginRejection, apiVars, chatVars, helperVars>>

roomToEmit == pendingCount + 3 <= MaxPending

SetUser(t) == \E u \in SetUserInputs : setUser(t, u) /\ UNCHANGED rest
CheckAuth(t) == checkAuth(t) /\ UNCHANGED rest
Logout(t) == roomToEmit /\ logout(t) /\ UNCHANGED rest
HandleSessionExpiry(t) ==
    roomToEmit /\ handleSessionExpiry(t, FALSE) /\ UNCHANGED rest
LoginStart(t) == \E email \in LoginEmails : login_start(t, email) /\ UNCHANGED rest
LoginSettle(t) ==
    \E i \in 1..MaxInFlight, o \in LoginOutcomes :
        login_settle(t, i, o)
        /\ UNCHANGED <<now, httpVars, hookVars, cacheVars, apiVars, chatVars, helperVars>>
InitCrossTabSync(t) == initCrossTabSync(t) /\ UNCHANGED rest
CleanupCrossTabSync(t) == cleanupCrossTabSync(t) /\ UNCHANGED rest
OnBroadcastLogout(t) == onBroadcastLogout(t) /\ UNCHANGED rest
HandleStorageEvent(t) == handleStorageEvent(t) /\ UNCHANGED rest
ConnectSocket(t) ==
    /\ socketConnected' = connectSocket(t)
    /\ UNCHANGED <<storeVariant, bcSupported, logoutEvent, user, isLoading, sessionExpiredAt,
                   loginInFlight, navPending, syncInit, bcInbox, stInbox,
                   authStorage, rest>>
Reload(t) ==
    \E w \in BOOLEAN :
        /\ rehydrate(t, w)
        /\ reloadHttp(t)
        /\ UNCHANGED <<now, hookVars, cacheVars, loginRejection, apiVars, chatVars, helperVars>>
OnUnauthorized(t) ==
    /\ roomToEmit
    /\ onUnauthorized(t)
    /\ UNCHANGED <<now, hookVars, cacheVars, loginRejection, authToken, lastRequest,
                   chatVars, helperVars>>
OnResetTimer(t) ==
    onResetTimer(t)
    /\ UNCHANGED <<now, hookVars, cacheVars, loginRejection, apiVars, chatVars, helperVars>>

SendRequest(v) ==
    sendRequest(v) /\ UNCHANGED <<storeVars, now, httpVars, hookVars, cacheVars,
                                   loginRejection, chatVars, helperVars>>
OnErrorResponse(v, t) ==
    \E status \in ErrorStatuses :
        /\ roomToEmit
        /\ onErrorResponse(v, t, status)
        /\ UNCHANGED <<now, hookVars, cacheVars, loginRejection, chatVars, helperVars>>

DisconnectSocket(t) ==
    /\ socketConnected' = disconnectSocket(t)
    /\ UNCHANGED <<storeVariant, bcSupported, logoutEvent, user, isLoading, sessionExpiredAt,
                   loginInFlight, navPending, syncInit, bcInbox, stInbox,
                   authStorage, rest>>

storeButSocket == <<storeVariant, bcSupported, logoutEvent, user, isLoading, sessionExpiredAt,
                    loginInFlight, navPending, syncInit, bcInbox, stInbox,
                    authStorage>>
storeButStorage == <<storeVariant, bcSupported, user, isLoading, sessionExpiredAt,
                     loginInFlight, socketConnected, navPending, syncInit,
                     bcInbox, stInbox>>
hookRest == <<now, httpVars, cacheVars, loginRejection, apiVars, chatVars, helperVars>>
cacheRest == <<now, httpVars, hookVars, loginRejection, lastRequest, lastError,
               chatVars, helperVars>>
fetchRest == <<storeButStorage, cacheRest>>

\* JavaScript runs a listener to completion: nothing else happens in the
\* tab while an event is being delivered
Mount(h) ==
    /\ ~dispatch.active
    /\ mount(h)
    /\ UNCHANGED <<handlersRef, dispatch, invoked, threw, startRegs,
                   transportError, storeButSocket, hookRest>>
Unmount(h) ==
    /\ ~dispatch.active
    /\ unmount(h)
    /\ UNCHANGED <<handlersRef, dispatch, invoked, threw, startRegs,
                   transportError, storeButSocket, hookRest>>
Subscribe(h, f) ==
    /\ ~dispatch.active
    /\ regCount < MaxRegs
    /\ subscribe(h, f)
    /\ UNCHANGED <<mounted, socketListeners, dispatch, invoked, threw, startRegs,
                   transportError, storeVars, hookRest>>
Unsubscribe(h, f) ==
    /\ ~dispatch.active
    /\ unsubscribe(h, f)
    /\ UNCHANGED <<mounted, socketListeners, dispatch, invoked, threw, startRegs,
                   transportError, storeVars, hookRest>>
EmitMessage ==
    ~dispatch.active /\ emitMessage /\ UNCHANGED <<storeVars, hookRest>>
InvokeHandler ==
    \E b \in Behaviours : invokeHandler(b) /\ UNCHANGED <<storeVars, hookRest>>
EndOfHandlers == endOfHandlers /\ UNCHANGED <<storeVars, hookRest>>
HookConnect == ~dispatch.active /\ ConnectSocket(HookTab)
HookDisconnect == ~dispatch.active /\ DisconnectSocket(HookTab)
OnMessage(callback) ==
    /\ ~dispatch.active
    /\ Len(socketListeners) < MaxListeners
    /\ onMessage(callback)
    /\ UNCHANGED <<mounted, handlersRef, dispatch, invoked, threw, startRegs,
                   transportError, storeVars, hookRest>>
OffMessage(callback) ==
    /\ ~dispatch.active
    /\ offMessage(callback)
    /\ UNCHANGED <<mounted, handlersRef, dispatch, invoked, threw, startRegs,
                   transportError, storeVars, hookRest>>

CacheSet(b, k) ==
    \E data \in Payloads, ttl \in TtlOptions, q \in BOOLEAN :
        /\ q \/ cacheStore[b][k] # Null \/ entryCount < MaxEntries
        /\ cacheSet(b, k, data, ttl, q)
        /\ UNCHANGED <<storeButStorage, cacheRest, fetches>>
CacheGet(b, k) == cacheGet(b, k) /\ UNCHANGED <<storeButStorage, cacheRest, fetches>>
CacheRemove(b, k) ==
    \E e \in BOOLEAN :
        cacheRemove(b, k, e) /\ UNCHANGED <<storeButStorage, cacheRest, fetches>>
CacheClear(b) ==
    \E e \in BOOLEAN :
        cacheClear(b, e) /\ UNCHANGED <<storeButStorage, cacheRest, fetches>>
GetOrFetchStart(b, k, ttl) ==
    /\ Len(fetches) < MaxFetches
    /\ getOrFetch_start(b, k, ttl)
    /\ UNCHANGED fetchRest
GetOrFetchStartReadThrows(b, k, ttl) ==
    /\ Len(fetches) < MaxFetches
    /\ getOrFetch_startReadThrows(b, k, ttl)
    /\ UNCHANGED fetchRest
ForeignWrite(b, k) ==
    /\ cacheStore[b][k] # Null \/ entryCount < MaxEntries
    /\ foreignWrite(b, k)
    /\ UNCHANGED <<storeButStorage, cacheRest, fetches>>
GetOrFetchSettle(i) ==
    \E o \in FetchOutcomes, q \in BOOLEAN :
        /\ i \in 1..Len(fetches)
        /\ \/ q
           \/ cacheStore[fetches[i].backend][fetches[i].key] # Null
           \/ entryCount < MaxEntries
        /\ getOrFetch_settle(i, o, q)
        /\ UNCHANGED fetchRest

InitCommon ==
    /\ bcSupported \in BOOLEAN
    /\ user = [t \in Tabs |-> Null]
    /\ isLoading = [t \in Tabs |-> TRUE]
    /\ sessionExpiredAt = [t \in Tabs |-> Null]
    /\ loginInFlight = [t \in Tabs |-> <<>>]
    /\ socketConnected = [t \in Tabs |-> FALSE]
    /\ navPending = [t \in Tabs |-> FALSE]
    /\ syncInit = [t \in Tabs |-> FALSE]
    /\ bcInbox = [t \in Tabs |-> 0]
    /\ stInbox = [t \in Tabs |-> <<>>]
    /\ authStorage = Null
    /\ logoutEvent = Null
    /\ isHandlingUnauthorized = [t \in Tabs |-> FALSE]
    /\ resetTimers = [t \in Tabs |-> <<>>]
    /\ burst = [t \in Tabs |-> NoBurst]
    /\ mounted = [h \in Hooks |-> FALSE]
    /\ handlersRef = [h \in Hooks |-> <<>>]
    /\ socketListeners = <<>>
    /\ dispatch = Idle
    /\ invoked = <<>>
    /\ threw = {}
    /\ startRegs = NoRegs
    /\ transportError = FALSE
    /\ cacheStore = [b \in Backends |-> [k \in CacheKeys |-> Null]]
    /\ cacheRet = Undefined
    /\ fetches = <<>>
    /\ loginRejection = [t \in Tabs |-> Null]
    /\ lastRequest = Null
    /\ lastError = NoError
    /\ chatLoads = <<>>
    /\ requests = <<>>
    /\ requestRet = NoResponse

\* ---- SpecStore: every operation of the store in one tab.  The page is
\* loaded at some time of the clock, which does not advance in this
\* specification.
InitStore ==
    /\ storeVariant \in StoreVariants
    /\ now \in 0..MaxTime
    /\ InitCommon
    /\ authToken = Null

NextStore ==
    \/ SetUser("A")
    \/ CheckAuth("A")
    \/ Logout("A")
    \/ HandleSessionExpiry("A")
    \/ LoginStart("A")
    \/ LoginSettle("A")
    \/ ConnectSocket("A")
    \/ Reload("A")

SpecStore == InitStore /\ [][NextStore]_vars

\* ---- SpecTabs: two tabs of one origin, with the operations that take
\* part in cross-tab logout
InitTabs ==
    /\ storeVariant \in ExpiryVariants
    /\ now \in 0..MaxTime
    /\ InitCommon
    /\ authToken = Null

NextTabs ==
    \/ \E t \in Tabs : SetUser(t)
    \/ \E t \in Tabs : Logout(t)
    \/ \E t \in Tabs : HandleSessionExpiry(t)
    \/ \E t \in Tabs : InitCrossTabSync(t)
    \/ \E t \in Tabs : CleanupCrossTabSync(t)
    \/ \E t \in Tabs : OnBroadcastLogout(t)
    \/ \E t \in Tabs : HandleStorageEvent(t)
    \/ \E t \in Tabs : ConnectSocket(t)
    \/ \E t \in Tabs : Reload(t)

SpecTabs == InitTabs /\ [][NextTabs]_vars

\* the event loop of a tab dispatches every queued event
FairTabs ==
    \A t \in Tabs : WF_vars(OnBroadcastLogout(t)) /\ WF_vars(HandleStorageEvent(t))

SpecTabsFair == SpecTabs /\ FairTabs

\* ---- SpecHttp: the api module and the store of one tab, with the clock
InitHttp ==
    /\ storeVariant \in ExpiryVariants
    /\ now = 0
    /\ InitCommon
    /\ authToken = Null

NextHttp ==
    \/ OnUnauthorized("A")
    \/ OnResetTimer("A")
    \/ SetUser("A")
    \/ Logout("A")
    \/ ConnectSocket("A")
    \/ Reload("A")
    \/ Tick

SpecHttp == InitHttp /\ [][NextHttp]_vars

\* time passes and a timer that is due runs its callback
FairHttp == WF_vars(Tick) /\ WF_vars(OnResetTimer("A"))

SpecHttpFair == SpecHttp /\ FairHttp

\* ---- SpecApi: the three HTTP clients and the store of one tab, with the
\* clock; localStorage may hold an authToken
InitApi ==
    /\ storeVariant \in StoreVariants
    /\ now = 0
    /\ InitCommon
    /\ authToken \in AuthTokens

NextApi ==
    \/ \E v \in ApiVariants : SendRequest(v)
    \/ \E v \in {"part_006", "services/api.ts"} : OnErrorResponse(v, "A")
    \/ OnUnauthorized("A")
    \/ OnResetTimer("A")
    \/ SetUser("A")
    \/ ConnectSocket("A")
    \/ Tick

SpecApi == InitApi /\ [][NextApi]_vars

\* ---- SpecHook: the components of one tab that use useChatSocket, and the
\* 'message' events of the socket
InitHook ==
    /\ storeVariant = "part_001"
    /\ now = 0
    /\ InitCommon
    /\ authToken = Null

NextHook ==
    \/ \E h \in Hooks : Mount(h)
    \/ \E h \in Hooks : Unmount(h)
    \/ \E h \in Hooks, f \in Handlers : Subscribe(h, f)
    \/ \E h \in Hooks, f \in Handlers : Unsubscribe(h, f)
    \/ EmitMessage
    \/ InvokeHandler
    \/ EndOfHandlers
    \/ HookConnect
    \/ HookDisconnect

SpecHook == InitHook /\ [][NextHook]_vars

\* ---- SpecListeners: the 'message' listeners of the socket of one tab:
\* those of onMessage / offMessage and the one of a component that uses
\* useChatSocket
ListenerHook == "h1"

NextListeners ==
    \/ \E callback \in Callbacks : OnMessage(callback)
    \/ \E callback \in {Null} \cup {Some(c) : c \in Callbacks} :
            OffMessage(callback)
    \/ Mount(ListenerHook)
    \/ Unmount(ListenerHook)
    \/ Subscribe(ListenerHook, "f1")
    \/ EmitMessage
    \/ InvokeHandler
    \/ EndOfHandlers
    \/ HookConnect

SpecListeners == InitHook /\ [][NextListeners]_vars

\* ---- SpecCache: the CacheManager of one tab over both storage areas, with
\* the clock
InitCache ==
    /\ storeVariant = "part_001"
    /\ now = 0
    /\ InitCommon
    /\ authToken = Null

NextCache ==
    \/ \E b \in Backends, k \in CacheKeys : CacheSet(b, k)
    \/ \E b \in Backends, k \in CacheKeys : CacheGet(b, k)
    \/ \E b \in Backends, k \in CacheKeys : CacheRemove(b, k)
    \/ \E b \in Backends : CacheClear(b)
    \/ Tick

SpecCache == InitCache /\ [][NextCache]_vars

\* ---- SpecFetch: getOrFetch calls of one tab, whose entries only the calls
\* themselves store, with remove and the clock
FetchKeys == {"k1"}
FetchTtls == {Null, Some(0), Some(1)}

NextFetch ==
    \/ \E b \in Backends, k \in FetchKeys, ttl \in FetchTtls : GetOrFetchStart(b, k, ttl)
    \/ \E i \in 1..MaxFetches : GetOrFetchSettle(i)
    \/ \E b \in Backends, k \in FetchKeys : CacheRemove(b, k)
    \/ Tick

SpecFetch == InitCache /\ [][NextFetch]_vars

\* ---- SpecFetchFaults: getOrFetch over a storage that may throw on a read
\* and may hold a text that is not JSON
FaultTtls == {Null, Some(1)}

NextFetchFaults ==
    \/ \E b \in Backends, k \in FetchKeys, ttl \in FaultTtls : GetOrFetchStart(b, k, ttl)
    \/ \E b \in Backends, k \in FetchKeys, ttl \in FaultTtls :
            GetOrFetchStartReadThrows(b, k, ttl)
    \/ \E i \in 1..MaxFetches : GetOrFetchSettle(i)
    \/ \E b \in Backends, k \in FetchKeys : ForeignWrite(b, k)
    \/ Tick

SpecFetchFaults == InitCache /\ [][NextFetchFaults]_vars

\* ---- SpecChat: the chat-history loads of one tab
LoadChatHistory(surface) ==
    /\ Len(chatLoads) < MaxLoads
    /\ loadChatHistory_start(surface)
    /\ UNCHANGED <<storeVars, now, httpVars, hookVars, cacheVars, loginRejection,
                   apiVars, helperVars>>
ChatRequestSettles(i) ==
    \E o \in ChatOutcomes :
        /\ i \in 1..Len(chatLoads)
        /\ loadChatHistory_settle(i, o)
        /\ UNCHANGED <<storeVars, now, httpVars, hookVars, cacheVars,
                       loginRejection, apiVars, helperVars>>

NextChat ==
    \/ \E surface \in ChatSurfaces : LoadChatHistory(surface)
    \/ \E i \in 1..MaxLoads : ChatRequestSettles(i)

SpecChat == InitCache /\ [][NextChat]_vars

\* ---- SpecRequest: cachedRequest calls of one tab, with the clock
requestRest == <<storeButStorage, now, httpVars, hookVars, loginRejection,
                 lastRequest, lastError, chatVars, fetches>>

CachedRequestStart(method, cacheConfig) ==
    /\ Len(requests) < MaxRequests
    /\ cachedRequest_start(method, cacheConfig)
    /\ UNCHANGED requestRest
CachedRequestSettle(i) ==
    \E o \in ResponseOutcomes, q \in BOOLEAN :
        /\ cachedRequest_settle(i, o, q)
        /\ UNCHANGED requestRest

NextRequest ==
    \/ \E method \in Methods, cacheConfig \in CacheDirectives :
            CachedRequestStart(method, cacheConfig)
    \/ \E i \in 1..MaxRequests : CachedRequestSettle(i)
    \/ Tick

SpecRequest == InitCache /\ [][NextRequest]_vars

\* ---- SpecNullPayload: set, getOrFetch and cachedRequest of one tab on
\* one key of localStorage, with the clock
NullKey == "k1"
NullTtls == {Null, Some(1)}
NullDirectives == {Some([key |-> NullKey, ttl |-> ttl, storage |-> Null]) : ttl \in NullTtls}

NextNullPayload ==
    \/ CacheSet("local", NullKey)
    \/ \E ttl \in NullTtls : GetOrFetchStart("local", NullKey, ttl)
    \/ \E i \in 1..MaxFetches : GetOrFetchSettle(i)
    \/ \E method \in {Null, Some("get")}, cacheConfig \in NullDirectives :
            CachedRequestStart(method, cacheConfig)
    \/ \E i \in 1..MaxRequests : CachedRequestSettle(i)
    \/ Tick

SpecNullPayload == InitCache /\ [][NextNullPayload]_vars

\* ---- SpecInvalidate: invalidateCache among writes to both areas of the
\* cache and to the other keys of localStorage
InvalidateCache(pattern) ==
    \E order \in Orders(localKeys) :
        /\ invalidateCache("A", order, pattern)
        /\ UNCHANGED <<storeVariant, bcSupported, user, isLoading, sessionExpiredAt,
                       loginInFlight, socketConnected, navPending, syncInit,
                       bcInbox, now, httpVars, hookVars, loginRejection,
                       lastRequest, lastError, chatVars, helperVars, fetches>>

InitInvalidate ==
    /\ storeVariant = "authstore.ts"
    /\ now = 0
    /\ InitCommon
    /\ authToken \in AuthTokens

\* cache.set(key, data, { storage }) with room in the storage
CacheFill(b, k) ==
    \E data \in Payloads :
        /\ cacheStore[b][k] # Null \/ entryCount < MaxEntries
        /\ cacheSet(b, k, data, Null, FALSE)
        /\ UNCHANGED <<storeButStorage, cacheRest, fetches>>

NextInvalidate ==
    \/ \E pattern \in Patterns : InvalidateCache(pattern)
    \/ \E b \in Backends, k \in CacheKeys : CacheFill(b, k)
    \/ SetUser("A")

SpecInvalidate == InitInvalidate /\ [][NextInvalidate]_vars

-----------------------------------------------------------------------------
(* Properties *)

\* C1: while the cool-down of the 401 guard is running, however many 401
\* responses arrive, the recovery sequence (toast, handleSessionExpiry,
\* navigation to the login page) has run exactly once, for the first of them;
\* once the cool-down is over (the timer has reset the flag) the next 401
\* runs it again, once.
C1_RecoveryOncePerCooldown ==
    \A t \in Tabs :
        burst[t].n401 >= 1 =>
            /\ burst[t].toasts = 1
            /\ burst[t].expiryCalls = 1
            /\ burst[t].navs = 1
            /\ navPending[t]

\* the second cool-down, with two more 401 responses after the one that
\* ran the recovery
C1_Witness ==
    /\ burst["A"].no = 2
    /\ burst["A"].n401 = 3
    /\ burst["A"].toasts = 1

signalPending(t) == bcInbox[t] > 0 \/ stInbox[t] # <<>>

\* C2: when a tab with a session calls handleSessionExpiry, every other tab
\* whose cross-tab sync is initialised gets a signal (the channel message,
\* the fallback key or the removal of auth-storage); the delivery of a signal
\* to a tab that holds a session clears the session and navigates to the
\* login page; and a tab holding a session with a signal pending eventually
\* has no session (or has torn its listeners down).
C2_OtherTabsConverge ==
    /\ [][\A t \in Tabs :
            (HandleSessionExpiry(t) /\ user[t] # Null) =>
                \A r \in listeners(t) :
                    bcInbox'[r] + Len(stInbox'[r]) > bcInbox[r] + Len(stInbox[r])]_vars
    /\ [][\A r \in Tabs :
            ((OnBroadcastLogout(r) \/ HandleStorageEvent(r)) /\ user[r] # Null) =>
                (user'[r] = Null /\ navPending'[r])]_vars
    /\ \A r \in Tabs :
            (syncInit[r] /\ user[r] # Null /\ signalPending(r))
                ~> (user[r] = Null \/ ~syncInit[r])

\* tab A's session expired, and the listening tab B was logged out and sent
\* to the login page by the signal
C2_Witness ==
    /\ user["A"] = Null
    /\ sessionExpiredAt["A"] # Null
    /\ syncInit["B"]
    /\ user["B"] = Null
    /\ sessionExpiredAt["B"] # Null
    /\ navPending["B"]

\* the step of tab t puts a logout event in the queue of every listening
\* tab: the {type:'logout'} channel message, or a storage event that
\* handleStorageEvent takes for a logout (the carexpert-logout-event key, the
\* removal of auth-storage)
logoutEventSent(t) ==
    \A r \in listeners(t) :
        \/ bcInbox'[r] = bcInbox[r] + 1
        \/ \E i \in 1..Len(stInbox'[r]) :
                /\ i > Len(stInbox[r])
                /\ stInbox'[r][i] \in {LOGOUT_EVENT_KEY, AUTH_STORAGE_KEY}

C4_LogoutClearsSession ==
    [][\A t \in Tabs :
            /\ (Logout(t) /\ user[t] # Null) =>
                    /\ user'[t] = Null
                    /\ ~socketConnected'[t]
                    /\ authStorage' = Null
            /\ (Logout(t) /\ user[t] = Null) =>
                    UNCHANGED <<user, socketConnected, authStorage, sessionExpiredAt>>]_vars

\* C5: the record under auth-storage holds only the identity fields of the
\* user (id, name, email, profile picture, role): no refreshToken.
C5_NoTokenPersisted ==
    (authStorage # Null /\ authStorage[1].user # Null) =>
        authStorage[1].user[1].refreshToken = Undefined

\* the calls one 'message' event owes: for each listener attached when it
\* arrived, in order, the registrations of its hook in order
RECURSIVE expectedCalls(_, _)
expectedCalls(ls, regs) ==
    IF ls = <<>> THEN <<>>
    ELSE [i \in 1..Len(regs[Head(ls)]) |-> <<Head(ls), regs[Head(ls)][i]>>]
            \o expectedCalls(Tail(ls), regs)

\* the delivery has come to the end of the last listener's array
deliveryEnds ==
    dispatch.active /\ Len(dispatch.ls) = 1 /\ dispatch.i > Len(dispatch.arr)

\* a step that is a call of the unsubscribe function of (h, f), by a
\* component or by a handler of hook h during a delivery
unsubscribeStep(h, f) ==
    \/ Unsubscribe(h, f)
    \/ /\ dispatch.active
       /\ Head(dispatch.ls) = h
       /\ invokeHandler([kind |-> "unsubscribe", f |-> f])
       /\ UNCHANGED <<storeVars, hookRest>>

C7_AtMostOneListener == Len(socketListeners) <= 1

\* new is old without one registration of f, or old when f is not registered
removesOne(old, new, f) ==
    \/ (\A i \in 1..Len(old) : old[i] # f) /\ new = old
    \/ \E i \in 1..Len(old) :
            /\ old[i] = f
            /\ new = [j \in 1..(Len(old) - 1) |-> IF j < i THEN old[j] ELSE old[j + 1]]

\* C8 as stated: the unsubscribe function removes exactly one registration,
\* the one its subscribe call made, and no other.
C8_RemovesOneRegistration ==
    [][\A h \in Hooks, f \in Handlers :
            unsubscribeStep(h, f) => removesOne(handlersRef[h], handlersRef'[h], f)]_vars

\* C8 amended: the unsubscribe function returned by subscribe(handler) removes
\* every registration of that handler with its hook (all of them when the
\* handler was subscribed more than once) and no registration of another
\* handler or of another hook, and leaves the socket's listeners alone; called
\* when the handler is not registered it changes nothing.
C8_RemovesEveryRegistrationOfHandler ==
    /\ [][\A h \in Hooks, f \in Handlers :
            unsubscribeStep(h, f) =>
                /\ handlersRef'[h] = SelectSeq(handlersRef[h], LAMBDA x : x # f)
                /\ \A g \in Hooks \ {h} : handlersRef'[g] = handlersRef[g]
                /\ socketListeners' = socketListeners]_vars
    /\ [](\A h \in Hooks, f \in Handlers :
            (\A i \in 1..Len(handlersRef[h]) : handlersRef[h][i] # f) =>
                filterOut(handlersRef[h], f) = handlersRef[h])

\* during a delivery over <<f1, f2, f1>> the first call unsubscribed f1: both
\* of its registrations are gone and f2 is still registered
C8_Witness ==
    /\ dispatch.active
    /\ dispatch.arr = <<"f1", "f2", "f1">>
    /\ dispatch.i = 2
    /\ handlersRef["h1"] = <<"f2">>

\* C9: a callback that throws does not stop the delivery (the callbacks after
\* it are called), the exception does not leave the listener, and the throw
\* changes neither a registry nor the connection.
C9_ThrowIsIsolated ==
    /\ [](~transportError)
    /\ []((deliveryEnds /\ threw # {}) =>
            Len(invoked) = Len(expectedCalls(startRegs.ls, startRegs.regs)))
    /\ [][(threw' # threw /\ threw' # {}) =>
            /\ dispatch'.active
            /\ dispatch'.ls = dispatch.ls
            /\ dispatch'.arr = dispatch.arr
            /\ dispatch'.i = dispatch.i + 1
            /\ UNCHANGED <<handlersRef, mounted, socketListeners, socketConnected>>]_vars

\* the first of three callbacks threw and the two after it were called
C9_Witness ==
    /\ deliveryEnds
    /\ threw = {1}
    /\ Len(invoked) = 3

\* the entry of (b, k) is the one set(k, data, {ttl: T}) stored at time ts
storedBySet(b, k, data, ts, T) ==
    cacheStore[b][k] = Some(stringify([data |-> data, timestamp |-> ts, ttl |-> Some(T)]))

\* C10: set(key, value, {ttl: T}) with T > 0 stores an entry stamped with the
\* current time; only set, get and remove of that key and clear of its
\* backend change it (no operation on another key, and not the passing of
\* time); and get(key) on the same backend returns the value while
\* now - timestamp < T and null once now - timestamp > T.
C10_TtlExpiry ==
    [][\A b \in Backends, k \in CacheKeys :
        /\ \A data \in Payloads, T \in 1..MaxTtl :
                (cacheSet(b, k, data, Some(T), FALSE) /\ UNCHANGED now) =>
                    cacheStore'[b][k] =
                        Some(stringify([data |-> data, timestamp |-> now,
                                        ttl |-> Some(T)]))
        /\ (cacheStore'[b][k] # cacheStore[b][k]) =>
                (CacheSet(b, k) \/ CacheGet(b, k) \/ CacheRemove(b, k) \/ CacheClear(b))
        /\ CacheGet(b, k) =>
                \A data \in Payloads, ts \in 0..MaxTime, T \in 1..MaxTtl :
                    storedBySet(b, k, data, ts, T) =>
                        /\ (now - ts < T) =>
                                (cacheRet' = data /\ cacheStore'[b][k] = cacheStore[b][k])
                        /\ (now - ts > T) => cacheRet' = JNull]_vars

\* get returned the value of an entry stored one time unit ago with ttl 2,
\* with an entry of another key in the same backend
C10_Witness ==
    /\ now = 1
    /\ storedBySet("local", "k1", "v1", 0, 2)
    /\ cacheStore["local"]["k2"] # Null
    /\ parse(cacheStore["local"]["k2"][1]).cacheItem.data = JNull
    /\ cacheRet = "v1"

\* C12: a get that finds an entry whose age exceeds its (non-zero) ttl removes
\* that key from the backend it was read from and nothing else; a get that
\* returns a hit, or finds no entry, leaves both backends unchanged; in every
\* case the session record is untouched.
C12_GetEvictsOnlyExpired ==
    [][\A b \in Backends, k \in CacheKeys :
        CacheGet(b, k) =>
            /\ IF /\ cacheStore[b][k] # Null
                  /\ cacheStore[b][k][1][2].ttl \notin {Null, Some(0)}
                  /\ now - cacheStore[b][k][1][2].timestamp >
                        cacheStore[b][k][1][2].ttl[1]
               THEN /\ cacheStore'[b][k] = Null
                    /\ \A b2 \in Backends, k2 \in CacheKeys :
                            <<b2, k2>> # <<b, k>> =>
                                cacheStore'[b2][k2] = cacheStore[b2][k2]
               ELSE cacheStore' = cacheStore
            /\ authStorage' = authStorage]_vars

\* at time 2 a get returned the value stored at time 2 under k2, and the entry
\* of k1, expired since time 1 and not read, is still in storage
C12_Witness ==
    /\ now = 2
    /\ storedBySet("local", "k1", "v1", 0, 1)
    /\ storedBySet("local", "k2", "v1", 2, 1)
    /\ cacheRet = "v1"

-----------------------------------------------------------------------------
(* the 401 guard (SpecHttpFair) *)

\* C16: the guard is Idle (flag false, no timer) or Handling (flag true, one
\* timer); a 401 in Idle moves it to Handling and arms one timer of COOLDOWN,
\* a 401 in Handling leaves flag and timer as they are; it leaves Handling
\* only when its timer has run out (or the page is loaded anew); and, as far
\* as the clock of the model reaches, Handling leads to Idle.
C16_GuardCycle ==
    /\ [](Len(resetTimers["A"]) = IF isHandlingUnauthorized["A"] THEN 1 ELSE 0)
    /\ [][OnUnauthorized("A") =>
            /\ isHandlingUnauthorized'["A"]
            /\ resetTimers'["A"] = IF isHandlingUnauthorized["A"]
                                   THEN resetTimers["A"]
                                   ELSE <<COOLDOWN>>]_vars
    /\ [][(isHandlingUnauthorized["A"] /\ ~isHandlingUnauthorized'["A"]) =>
            \/ OnResetTimer("A") /\ resetTimers["A"] = <<0>>
            \/ Reload("A")]_vars
    /\ (/\ isHandlingUnauthorized["A"]
        /\ now + Head(resetTimers["A"]) <= MaxTime)
            ~> ~isHandlingUnauthorized["A"]

\* the guard is back in Idle after its first cool-down: the navigation of the
\* recovery is still pending, so the page was not loaded anew
C16_Witness ==
    /\ burst["A"].no = 1
    /\ ~isHandlingUnauthorized["A"]
    /\ resetTimers["A"] = <<>>
    /\ navPending["A"]
    /\ now = COOLDOWN

-----------------------------------------------------------------------------
(* the HTTP clients (SpecApi) *)

\* a 401 handled by the guarded interceptor, or by the one of part_006
unauthorizedStep ==
    \/ OnUnauthorized("A")
    \/ OnErrorResponse("part_006", "A") /\ lastError'.status = 401

\* C17 as stated: a request that fails with status 401 is handled by the
\* recovery sequence and its caller's call is never rejected.
C17_UnauthorizedNeverRejected ==
    [][unauthorizedStep => lastError'.result # "reject"]_vars

\* C17, amended: a request that fails with status 401 sets off the recovery
\* sequence (toast, end of the session, navigation to the login page) unless
\* the guard is in its cool-down, and in either case the interceptor rejects
\* the call to its caller.
C17_UnauthorizedRecoveredAndRejected ==
    [][unauthorizedStep =>
        /\ lastError'.status = 401
        /\ lastError'.result = "reject"
        /\ IF OnUnauthorized("A") /\ isHandlingUnauthorized["A"]
           THEN lastError'.toast = Null /\ UNCHANGED storeVars
           ELSE /\ lastError'.toast # Null
                /\ user'["A"] = Null
                /\ navPending'["A"]]_vars

\* the second 401 of a burst: no second recovery, and the call was rejected
C17_Witness ==
    /\ burst["A"].n401 = 2
    /\ burst["A"].toasts = 1
    /\ lastError = [status |-> 401, toast |-> Null, result |-> "reject"]
    /\ navPending["A"]

C19_NoStoredCredentialInHeader ==
    lastRequest # Null =>
        /\ lastRequest[1].Authorization = Null
        /\ lastRequest[1].withCredentials

-----------------------------------------------------------------------------
(* the socket (SpecHook) *)

C21_OnlyDisconnectSocketDisconnects ==
    [][/\ \A h \in Hooks, f \in Handlers :
            unsubscribeStep(h, f) => socketConnected' = socketConnected
       /\ \A h \in Hooks : Unmount(h) => socketConnected' = socketConnected
       /\ (socketConnected[HookTab] /\ ~socketConnected'[HookTab]) =>
            HookDisconnect]_vars

\* during a delivery the only callback of h1 has unsubscribed itself, h2 was
\* unmounted before, and the socket is connected
C21_Witness ==
    /\ dispatch.active
    /\ startRegs.regs["h1"] = <<"f1">>
    /\ handlersRef["h1"] = <<>>
    /\ handlersRef["h2"] = <<>>
    /\ ~mounted["h2"]
    /\ socketConnected[HookTab]

-----------------------------------------------------------------------------
(* login (SpecStore) *)

\* id, name, email, profile image and role of a response, and nothing else
identityFields(r) == [r EXCEPT !.refreshToken = Undefined]

\* C13: login called with no session sets isLoading to true while the request
\* is in flight, and when the endpoint reports success it ends with isLoading
\* false and user equal to the identity fields (id, name, email, profile
\* image, role) of the response.
C13_LoginSuccessSetsIdentity ==
    [][/\ (LoginStart("A") /\ user["A"] = Null) => isLoading'["A"]
       /\ \A o \in LoginOutcomes :
            (o.kind = "ok" /\ user["A"] = Null
                /\ \E i \in 1..MaxInFlight : login_settle("A", i, o)) =>
                /\ ~isLoading'["A"]
                /\ user'["A"] = Some(identityFields(o.data))]_vars

\* C14: a failed login ends with isLoading false and the session as it was,
\* and rejects with the backend's message when the backend reported the
\* failure (in the envelope or with an error status) and with the generic
\* unknown-error message when the request could not complete.
C14_LoginFailureCategorized ==
    [][\A o \in LoginOutcomes :
        (o.kind # "ok" /\ \E i \in 1..MaxInFlight : login_settle("A", i, o)) =>
            /\ ~isLoading'["A"]
            /\ user'["A"] = user["A"]
            /\ loginRejection'["A"] =
                    Some(IF o.kind = "network" THEN "Unknown error occurred"
                         ELSE BACKEND_MESSAGE)]_vars

\* C15: in the versions that persist the whole user (all but part_008),
\* setUser(u) leaves u in the durable record, and a reload from a record
\* holding u yields a session identical to u in the step that creates the
\* store, with no request in flight.
C15_SetUserSurvivesReload ==
    [][storeVariant # "part_008" =>
        \A u \in SetUserInputs :
            /\ (setUser("A", u) /\ UNCHANGED rest) =>
                    authStorage' = Some([user |-> Some(u)])
            /\ (Reload("A") /\ authStorage = Some([user |-> Some(u)])) =>
                    /\ user'["A"] = Some(u)
                    /\ loginInFlight'["A"] = <<>>]_vars

\* after a login that failed and settled, a page load (isLoading back to its
\* initial true, nothing in flight) has the session of the record
C15_Witness ==
    /\ storeVariant = "authstore.ts"
    /\ loginRejection["A"] # Null
    /\ isLoading["A"]
    /\ loginInFlight["A"] = <<>>
    /\ user["A"] # Null
    /\ user["A"][1].refreshToken = "rt-u1"
    /\ authStorage = Some([user |-> user["A"]])

\* C22: whenever a session is present its role is one of PATIENT, DOCTOR,
\* ADMIN, whatever role the login response or the caller of setUser supplied.
C22_RoleInClosedSet ==
    \A t \in Tabs : user[t] # Null => user[t][1].role \in Roles

\* C23: a set whose write the backend refuses returns normally and leaves
\* both backends and the session record exactly as they were; remove and
\* clear return normally whether or not the backend throws, and leave the
\* backend as it was when it throws.
C23_WritesNeverThrow ==
    /\ [](cacheRet # Throws)
    /\ [][(cacheStore' # cacheStore \/ authStorage' # authStorage) =>
            \A b \in Backends :
                /\ ~cacheClear(b, TRUE)
                /\ \A k \in CacheKeys :
                    /\ ~cacheRemove(b, k, TRUE)
                    /\ \A data \in Payloads, ttl \in TtlOptions :
                            ~cacheSet(b, k, data, ttl, TRUE)]_vars

\* the storage holds as many entries as it takes, none of them under k2 of
\* localStorage, and the last call (a set that was refused, for one)
\* returned normally
C23_Witness ==
    /\ entryCount = MaxEntries
    /\ cacheStore["local"]["k2"] = Null
    /\ storedBySet("local", "k1", "v1", 0, 1)
    /\ now = 1
    /\ cacheRet = Undefined

-----------------------------------------------------------------------------
(* getOrFetch (SpecFetch) *)

\* the entry of key k in backend b is present and its age does not exceed a
\* non-zero ttl
freshEntry(b, k) ==
    /\ cacheStore[b][k] # Null
    /\ parse(cacheStore[b][k][1]).ok
    /\ LET it == cacheStore[b][k][1][2]
       IN \/ it.ttl = Null
          \/ it.ttl[1] = 0
          \/ now - it.timestamp <= it.ttl[1]

payloadOf(b, k) == cacheStore[b][k][1][2].data

\* C11 as stated: whenever a fresh entry exists, getOrFetch returns without
\* invoking fetchFn.
C11_FreshEntryNeverFetches ==
    [][\A b \in Backends, k \in FetchKeys, ttl \in FetchTtls :
        (GetOrFetchStart(b, k, ttl) /\ freshEntry(b, k)) => fetches' = fetches]_vars

\* C11, amended: getOrFetch returns the cached value without invoking fetchFn
\* when a fresh entry with a non-null payload exists; otherwise (no entry, an
\* expired entry, or a null payload) it invokes fetchFn exactly once, and when
\* the fetch resolves it returns the result and, unless the backend refuses
\* the write, stores it under key with the options of the call.
C11_GetOrFetch ==
    [][/\ \A b \in Backends, k \in FetchKeys, ttl \in FetchTtls :
            GetOrFetchStart(b, k, ttl) =>
                IF freshEntry(b, k) /\ payloadOf(b, k) # JNull
                THEN /\ cacheRet' = payloadOf(b, k)
                     /\ fetches' = fetches
                     /\ cacheStore' = cacheStore
                ELSE fetches' =
                        Append(fetches, [backend |-> b, key |-> k, ttl |-> ttl])
       /\ \A i \in 1..MaxFetches, data \in Payloads :
            (GetOrFetchSettle(i) /\ cacheRet' = data) =>
                /\ Len(fetches') = Len(fetches) - 1
                /\ \/ cacheStore' = cacheStore
                   \/ cacheStore' =
                        [cacheStore EXCEPT ![fetches[i].backend][fetches[i].key] =
                            Some(stringify([data |-> data, timestamp |-> now,
                                            ttl |-> fetches[i].ttl]))]]_vars

\* at time 2 a fetch resolved and its result was stored with ttl 1 and
\* returned, while a second call on the same key is still awaiting its fetch
C11_Witness ==
    /\ now = 2
    /\ storedBySet("local", "k1", "v1", 2, 1)
    /\ cacheRet = "v1"
    /\ Len(fetches) = 1

\* C24: get never throws; when getItem throws, or the stored text is not
\* JSON, the get inside getOrFetch answers null, storage is left as it was
\* and fetchFn is invoked, and the call then settles with what fetchFn
\* produced.
C24_ReadFailureIsAMiss ==
    /\ [](cacheRet \in Payloads \cup {Undefined, Rejected})
    /\ [][\A b \in Backends, k \in FetchKeys, ttl \in FaultTtls :
            ((GetOrFetchStart(b, k, ttl) /\ cacheStore[b][k] = Some(NOT_JSON))
                \/ GetOrFetchStartReadThrows(b, k, ttl)) =>
                    /\ cacheRet' = JNull
                    /\ cacheStore' = cacheStore
                    /\ fetches' =
                            Append(fetches, [backend |-> b, key |-> k, ttl |-> ttl])]_vars
    /\ [][\A i \in 1..MaxFetches, data \in Payloads :
            (/\ i <= Len(fetches)
             /\ getOrFetch_settle(i, [kind |-> "resolve", data |-> data], FALSE)
             /\ UNCHANGED now) =>
                cacheRet' = data]_vars

\* a getOrFetch on a key that holds a text that is not JSON got null from
\* get and awaits its fetch
C24_Witness ==
    /\ cacheStore["local"]["k1"] = Some(NOT_JSON)
    /\ cacheRet = JNull
    /\ fetches = <<[backend |-> "local", key |-> "k1", ttl |-> Some(1)]>>

\* C25: every chat-history load sends exactly one request, to the endpoint
\* of its surface; a load whose request ends with success = false or fails
\* is rejected, and no further request is sent for it.
C25_OneRequestNoRetry ==
    /\ [](\A i \in 1..Len(chatLoads) :
            chatLoads[i].requests = <<chatEndpoint(chatLoads[i].surface)>>)
    /\ [][\A i \in 1..MaxLoads :
            (/\ i <= Len(chatLoads)
             /\ \E o \in ChatOutcomes :
                    /\ ~(o.kind = "response" /\ o.success)
                    /\ loadChatHistory_settle(i, o)) =>
                /\ chatLoads'[i].result =
                        Some([settled |-> "rejected", success |-> FALSE])
                /\ chatLoads'[i].requests = chatLoads[i].requests]_vars
    /\ [][\A i \in 1..Len(chatLoads) :
            chatLoads[i].result # Null => chatLoads'[i] = chatLoads[i]]_vars

\* a direct, a city and a room load were made; two of them were rejected,
\* one is still awaiting its request
C25_Witness ==
    /\ Len(chatLoads) = 3
    /\ chatLoads[1].surface = "direct" /\ chatLoads[1].result # Null
    /\ chatLoads[1].result[1].settled = "rejected"
    /\ chatLoads[2].surface = "city" /\ chatLoads[2].result # Null
    /\ chatLoads[2].result[1].settled = "rejected"
    /\ chatLoads[3].surface = "room" /\ chatLoads[3].result = Null

\* C26: a 401 handled while a Session is active and the guard is clear runs
\* the recovery sequence: when the interceptor returns the Session is
\* absent, the socket is disconnected, auth-storage is removed, the
\* navigation to login is assigned and the error is rejected to the caller.
\* A 401 handled while the guard is set is only rejected: the Session is
\* left as it is.
C26_RecoveryUnlessGuarded ==
    [][\A t \in Tabs :
        (OnUnauthorized(t) /\ user[t] # Null) =>
            /\ lastError'.status = 401
            /\ lastError'.result = interceptorResult(401)
            /\ IF isHandlingUnauthorized[t]
               THEN /\ user' = user
                    /\ lastError'.toast = Null
                    /\ UNCHANGED <<socketConnected, authStorage, navPending>>
               ELSE /\ user'[t] = Null
                    /\ ~socketConnected'[t]
                    /\ authStorage' = Null
                    /\ navPending'[t]
                    /\ isHandlingUnauthorized'[t]]_vars

\* C26 as stated: whatever the guard, the Session is absent after a 401
\* was handled while a Session was active
C26_RecoveryInAnyGuardState ==
    [][\A t \in Tabs :
        (OnUnauthorized(t) /\ user[t] # Null) => user'[t] = Null]_vars

\* within the cool-down of a recovery a Session was set again, and a second
\* 401 was handled without a toast: the Session is still active
C26_Witness ==
    /\ isHandlingUnauthorized["A"]
    /\ user["A"] # Null
    /\ burst["A"].n401 = 2
    /\ burst["A"].expiryCalls = 1
    /\ lastError.status = 401
    /\ lastError.toast = Null

\* the tab handles a logout signal: the channel message, or the storage
\* event at the head of its queue (the fallback key, or the removal of
\* auth-storage)
signalHandled(r) == OnBroadcastLogout(r) \/ HandleStorageEvent(r)

C28_SettleOrderDecides ==
    [][/\ \A i \in 1..MaxInFlight, o \in LoginOutcomes :
            (login_settle("A", i, o) /\ UNCHANGED now) =>
                /\ loginInFlight'["A"] = settled(loginInFlight["A"], i)
                /\ IF o.kind = "ok"
                   THEN /\ user'["A"] = Some(userData(o.data))
                        /\ user'["A"][1].email = loginInFlight["A"][i]
                   ELSE user'["A"] = user["A"]
       /\ Logout("A") =>
            (user'["A"] = Null /\ loginInFlight' = loginInFlight)
       /\ LoginStart("A") => user' = user]_vars

\* the login called second has settled, the one called first has settled
\* after it or is still in flight; the session is that of the first call's
\* account only once that call has settled
C28_Witness ==
    /\ loginInFlight["A"] = <<"a@x.com">>
    /\ user["A"] # Null
    /\ user["A"][1].email = "b@x.com"
    /\ ~isLoading["A"]
    /\ loginRejection["A"] = Null

\* C29: handleSessionExpiry called in a tab that holds no session changes
\* nothing: user, isLoading and sessionExpiredAt stay, the socket keeps its
\* connection, the auth-storage record stays as it is, and no channel
\* message or storage event goes to any tab.
C29_ExpiryWithoutSessionIsNoOp ==
    [][\A t \in Tabs :
        (user[t] = Null /\ HandleSessionExpiry(t)) =>
            UNCHANGED <<user, isLoading, sessionExpiredAt, socketConnected,
                        authStorage, bcInbox, stInbox, navPending>>]_vars

\* tab A holds no session and never expired, its socket is connected, the
\* record of tab B's session is in storage and B listens with nothing to
\* handle: the state handleSessionExpiry is called in, and leaves
C29_Witness ==
    /\ user["A"] = Null /\ sessionExpiredAt["A"] = Null
    /\ socketConnected["A"]
    /\ user["B"] # Null /\ authStorage = Some([user |-> user["B"]])
    /\ syncInit["B"] /\ bcInbox["B"] = 0 /\ stInbox["B"] = <<>>
    /\ pendingCount + 3 <= MaxPending

\* the storage events on carexpert-logout-event in a queue
keyEvents(q) == Cardinality({i \in 1..Len(q) : q[i] = LOGOUT_EVENT_KEY})

\* C30: carexpert-logout-event is absent from localStorage between the
\* steps of the program; its events reach a tab only from a
\* handleSessionExpiry of part_003 that ended a session where
\* BroadcastChannel is missing, two at a time (the write and the removal),
\* in place of the channel message; where BroadcastChannel exists that call
\* posts the message and leaves the key alone.
C30_FallbackKeyEphemeral ==
    /\ [](logoutEvent = Null)
    /\ [][\A r \in Tabs :
            keyEvents(stInbox'[r]) > keyEvents(stInbox[r]) =>
                /\ storeVariant = "part_003" /\ ~bcSupported
                /\ keyEvents(stInbox'[r]) = keyEvents(stInbox[r]) + 2
                /\ bcInbox' = bcInbox
                /\ \E t \in Tabs \ {r} : user[t] # Null /\ user'[t] = Null]_vars
    /\ [][\A t \in Tabs :
            (storeVariant = "part_003" /\ user[t] # Null
                /\ handleSessionExpiry(t, FALSE)) =>
                    \A r \in listeners(t) :
                        IF bcSupported
                        THEN /\ bcInbox'[r] = bcInbox[r] + 1
                             /\ keyEvents(stInbox'[r]) = keyEvents(stInbox[r])
                        ELSE /\ bcInbox'[r] = bcInbox[r]
                             /\ stInbox'[r] = stInbox[r] \o
                                    <<AUTH_STORAGE_KEY, LOGOUT_EVENT_KEY,
                                      LOGOUT_EVENT_KEY>>]_vars

\* where BroadcastChannel is missing, tab A's session has just expired: the
\* listening tab B has the events of the write and the removal of the key
\* to handle, and the key is not in storage
C30_Witness ==
    /\ storeVariant = "part_003" /\ ~bcSupported
    /\ user["A"] = Null /\ sessionExpiredAt["A"] # Null
    /\ user["B"] # Null /\ syncInit["B"]
    /\ stInbox["B"] = <<AUTH_STORAGE_KEY, LOGOUT_EVENT_KEY, LOGOUT_EVENT_KEY>>
    /\ logoutEvent = Null

\* C31: an entry of the cache is created or overwritten only by the
\* settling of a cachedRequest call that was GET-style, carried a cache
\* directive and got status 200; a call with another method never creates
\* or overwrites an entry.
C31_CacheWrittenOnlyByGet ==
    [][\A b \in Backends, k \in CacheKeys :
        (cacheStore'[b][k] # cacheStore[b][k] /\ cacheStore'[b][k] # Null) =>
            \E i \in 1..Len(requests) :
                /\ requests' = settled(requests, i)
                /\ requests[i].cache # Null
                /\ isGetStyle(requests[i].method)
                /\ requestRet'.status = 200]_vars

\* the key is in localStorage
inLocal(key) ==
    CASE key \in CacheKeys -> cacheStore["local"][key] # Null
      [] key = AUTH_STORAGE_KEY -> authStorage # Null
      [] key = AUTH_TOKEN_KEY -> authToken # Null
      [] key = LOGOUT_EVENT_KEY -> logoutEvent # Null

\* C32: invalidateCache(pattern) leaves in localStorage exactly the keys
\* that were there and do not contain pattern, each with the text it had,
\* in whatever order the storage enumerates its keys, and leaves
\* sessionStorage as it was.
C32_InvalidateRemovesMatches ==
    [][\A pattern \in Patterns :
        InvalidateCache(pattern) =>
            /\ \A key \in LocalKeys :
                    inLocal(key)' <=>
                        (inLocal(key) /\ ~includes(keyText(key), pattern))
            /\ \A k \in CacheKeys :
                    cacheStore'["local"][k] \in {Null, cacheStore["local"][k]}
            /\ authStorage' \in {Null, authStorage}
            /\ authToken' \in {Null, authToken}
            /\ cacheStore'["session"] = cacheStore["session"]]_vars

\* the record of the session that is in the store and the token are gone
\* from localStorage, as invalidateCache("auth") leaves them, with k2 in
\* the durable area and k1 in the session area
C32_Witness ==
    /\ cacheStore["local"]["k1"] = Null
    /\ cacheStore["local"]["k2"] # Null
    /\ cacheStore["session"]["k1"] # Null
    /\ authStorage = Null
    /\ user["A"] # Null
    /\ authToken = Null

\* C33: in every reachable state of the store, a tab that holds a session
\* has sessionExpiredAt null.
C33_NoExpiryStampWithSession ==
    \A t \in Tabs : user[t] # Null => sessionExpiredAt[t] = Null

\* C34: logout and handleSessionExpiry leave the logins in flight as they
\* are, and a login that succeeds while the session is absent, whether a
\* logout or an expiry made it so, sets user to the identity of its
\* response: the store holds a session again.
C34_LogoutDoesNotCancelLogin ==
    [][/\ (Logout("A") \/ HandleSessionExpiry("A")) =>
            /\ loginInFlight' = loginInFlight
            /\ user'["A"] = Null
       /\ \A i \in 1..MaxInFlight, data \in LoginResponses :
            (/\ user["A"] = Null
             /\ i <= Len(loginInFlight["A"])
             /\ login_settle("A", i, [kind |-> "ok", data |-> data])
             /\ UNCHANGED now) =>
                /\ user'["A"] = Some(userData(data))
                /\ user'["A"] # Null]_vars

\* the session ended by an expiry (its time is still recorded) is back: the
\* login that was in flight at the expiry has succeeded since
C34_Witness ==
    /\ storeVariant = "authstore.ts"
    /\ user["A"] # Null
    /\ sessionExpiredAt["A"] # Null
    /\ loginInFlight["A"] = <<>>
    /\ ~isLoading["A"]
    /\ authStorage = Some([user |-> user["A"]])

\* C35: a getOrFetch call that misses starts a fetch of its own, whether or
\* not another call has a fetch in flight for the same key; when a call's
\* fetch resolves, that call returns its own data, stores it under the key
\* over whatever an earlier call stored, and leaves the other call's fetch
\* in flight.
C35_NoCrossCallDeduplication ==
    [][/\ \A b \in Backends, k \in FetchKeys, ttl \in FetchTtls :
            (cacheRet' = JNull /\ GetOrFetchStart(b, k, ttl)) =>
                fetches' = Append(fetches, [backend |-> b, key |-> k, ttl |-> ttl])
       /\ \A i \in 1..MaxFetches, data \in Payloads :
            (/\ i <= Len(fetches)
             /\ getOrFetch_settle(i, [kind |-> "resolve", data |-> data], FALSE)
             /\ UNCHANGED now) =>
                /\ cacheRet' = data
                /\ fetches' = settled(fetches, i)
                /\ cacheStore'[fetches[i].backend][fetches[i].key] =
                        Some(stringify([data |-> data, timestamp |-> now,
                                        ttl |-> fetches[i].ttl]))]_vars

\* two calls for the same key of the same area await their fetches
C35_Witness ==
    /\ Len(fetches) = 2
    /\ fetches[1].backend = fetches[2].backend
    /\ fetches[1].key = fetches[2].key
    /\ cacheStore[fetches[1].backend][fetches[1].key] = Null

wrappersOf(ls) == SelectSeq(ls, LAMBDA l : l \in Wrappers)

\* C38: offMessage(cb) leaves the 'message' listeners as they are, the
\* wrapper that onMessage(cb) attached among them; an event is delivered to
\* every listener attached when it arrives, and a wrapper it reaches calls
\* its callback.  A listener attached by onMessage is detached only by
\* offMessage(), which detaches every 'message' listener, the
\* onSocketMessage of a mounted hook included.
C38_OffMessageDetachesAllOrNothing ==
    /\ [][\A callback \in Callbacks :
            OffMessage(Some(callback)) => socketListeners' = socketListeners]_vars
    /\ [][EmitMessage => dispatch'.ls = socketListeners]_vars
    /\ [][\A callback \in Callbacks :
            (/\ dispatch.active
             /\ Head(dispatch.ls) = wrapper(callback)
             /\ invokeHandler([kind |-> "return", f |-> Undefined])
             /\ UNCHANGED <<storeVars, hookRest>>) =>
                invoked' = Append(invoked, <<wrapper(callback), callback>>)]_vars
    /\ [][OffMessage(Null) => socketListeners' = <<>>]_vars
    /\ [][Len(wrappersOf(socketListeners')) < Len(wrappersOf(socketListeners)) =>
            OffMessage(Null)]_vars

\* the hook is mounted with a callback subscribed, and offMessage() has
\* taken its onSocketMessage off the socket
C38_Witness ==
    /\ mounted[ListenerHook]
    /\ handlersRef[ListenerHook] = <<"f1">>
    /\ socketConnected[HookTab]
    /\ socketListeners = <<>>

\* C39: an entry whose payload is null is stored by set(key, null), by a
\* getOrFetch whose fetch resolved with null and by a cachedRequest whose
\* response body is null; while such an entry is fresh, a getOrFetch call
\* for its key calls fetchFn and a GET-style cachedRequest call for its key
\* calls axios, as they do when the key is missing, and neither returns the
\* entry.
C39_NullPayloadIsAMiss ==
    [][/\ \A ttl \in NullTtls :
            (/\ freshEntry("local", NullKey)
             /\ payloadOf("local", NullKey) = JNull
             /\ GetOrFetchStart("local", NullKey, ttl)) =>
                /\ cacheRet' = JNull
                /\ fetches' = Append(fetches, [backend |-> "local", key |-> NullKey,
                                               ttl |-> ttl])
       /\ \A method \in {Null, Some("get")}, cacheConfig \in NullDirectives :
            (/\ freshEntry("local", NullKey)
             /\ payloadOf("local", NullKey) = JNull
             /\ CachedRequestStart(method, cacheConfig)) =>
                /\ requests' = Append(requests, [method |-> method,
                                                 cache |-> cacheConfig])
                /\ requestRet' = requestRet
       /\ \A i \in 1..MaxFetches :
            (/\ i <= Len(fetches)
             /\ getOrFetch_settle(i, [kind |-> "resolve", data |-> JNull], FALSE)
             /\ UNCHANGED now) =>
                cacheStore'["local"][NullKey][1][2].data = JNull
       /\ \A status \in {200} :
            (/\ requests # <<>>
             /\ cachedRequest_settle(1, [kind |-> "response", status |-> status,
                                         data |-> JNull], FALSE)
             /\ UNCHANGED now) =>
                cacheStore'["local"][NullKey][1][2].data = JNull]_vars

\* a null payload stored at time 1 without a ttl is in the cache at time 2,
\* and a getOrFetch call and a cachedRequest call for its key are awaiting
\* what they fetch
C39_Witness ==
    /\ now = 2
    /\ cacheStore["local"][NullKey] =
            Some(stringify([data |-> JNull, timestamp |-> 1, ttl |-> Null]))
    /\ Len(fetches) = 1
    /\ Len(requests) = 1
    /\ cacheRet = JNull

\* the entry of (b, k) was stored without a ttl or with ttl 0
noTtlEntry(b, k) ==
    /\ cacheStore[b][k] # Null
    /\ parse(cacheStore[b][k][1]).ok
    /\ parse(cacheStore[b][k][1]).cacheItem.ttl \in {Null, Some(0)}

\* C40: a get of an entry stored without a ttl, or with ttl 0, returns the
\* entry's value whatever the time and leaves the entry in place; such an
\* entry changes only by a set or a remove of its key or a clear of its
\* backend, not by a get and not by the passing of time.
C40_NoTtlNeverExpires ==
    [][\A b \in Backends, k \in CacheKeys :
        noTtlEntry(b, k) =>
            /\ CacheGet(b, k) =>
                    /\ cacheRet' = parse(cacheStore[b][k][1]).cacheItem.data
                    /\ cacheStore' = cacheStore
            /\ (cacheStore'[b][k] # cacheStore[b][k]) =>
                    (CacheSet(b, k) \/ CacheRemove(b, k) \/ CacheClear(b))]_vars

\* at the latest time of the clock get returned the value of an entry stored
\* with ttl 0 at time 0, and an entry stored without a ttl at time 0 is in
\* the other area
C40_Witness ==
    /\ now = MaxTime
    /\ cacheStore["local"]["k1"] =
            Some(stringify([data |-> "v1", timestamp |-> 0, ttl |-> Some(0)]))
    /\ cacheStore["session"]["k2"] =
            Some(stringify([data |-> JNull, timestamp |-> 0, ttl |-> Null]))
    /\ cacheRet = "v1"

====
